---------------------------- MODULE Spec2Model ----------------------------
(***************************************************************************)
(* Model of the Golfcoachr10 analytics core: CSV row parsing, numeric      *)
(* helpers and quantile, the gap classifier and gapping ladder, outlier    *)
(* tagging and session summaries (all src/lib/r10.ts), the coach v2        *)
(* constraint scorer (src/lib/coach-v2.ts)                                 *)
(* and the trend deltas (src/unnamed/part_004, imported by the routes as   *)
(* '@/lib/analysis'), and the registration route with its SQLite retry     *)
(* loop (src/app/api/auth/register/route.ts).                              *)
(*                                                                         *)
(* Numbers.  Every measured quantity (yards, mph) is held as an integer    *)
(* count of TENTHS of its unit: 150.0 yds is 1500.  A JavaScript           *)
(* `number | null` is the tuple <<v>> or the empty tuple <<>> (NULL), so   *)
(* that a value and its absence can be compared.  quantile() interpolates  *)
(* at a position (n-1)*q with q a multiple of 1/20 (0.1, 0.25, 0.5, 0.75,  *)
(* 0.9), so its exact result is held in TWENTIETHS of a tenth (value * 20);*)
(* q itself is held in twentieths (0.25 is 5).  IEEE rounding error of the *)
(* order 1e-13 in these products is not modelled: arithmetic is exact.     *)
(***************************************************************************)
EXTENDS Integers, Sequences, FiniteSets, TLC

VARIABLES
    pc,              \* position of the modelled call sequence
    qValues,         \* quantile: the `values` argument
    qArg,            \* quantile: the `q` argument, in twentieths
    qRet,            \* quantile: [quantile, rounded] results
    gapFamily,       \* classifyGap: the `family` argument
    gapYds,          \* classifyGap: the `gapToNextYds` argument (tenths)
    gapRet,          \* classifyGap: the returned GapStatus
    shots,           \* ShotRecord[]: the list markCarryOutliers mutates
    csvRows,         \* mapRowsToShots: the parsed CSV rows, each a list of <<key, cell>>
    storedShots,     \* StoredShot[]: the shots as toStoredShots persists them
    sessionSummary,        \* SessionSummary of the latest session
    gappingLadder,         \* GappingLadder built from it
    planArgs,        \* buildCoachV2Plan: options.sessionsAnalyzed
    coachV2Plan,          \* buildCoachV2Plan: CoachV2Plan | null
    trendArgs,       \* buildTrendDeltas: session counts and baseline summary
    trendDeltas,         \* buildTrendDeltas: TrendDeltas
    insightShots,    \* buildRuleInsights: the `shots` argument
    drillMemory,     \* buildRuleInsights: the `drillLogs` argument
    ruleInsights,    \* buildRuleInsights: RuleInsight[]
    numCell,         \* numeric: the `value` argument
    numRet,          \* numeric: the returned number | null
    registerPayload, \* register POST: the request body
    attempt,         \* withSqliteRetry: the loop counter
    lastError,       \* withSqliteRetry: the last locked error caught
    thrown,          \* the error being propagated, if any
    operationRuns,   \* the outcome of each run of `operation`, in order
    response         \* register POST: the NextResponse returned

qVars == <<qValues, qArg, qRet>>
gapVars == <<gapFamily, gapYds, gapRet>>
shotVars == <<shots, csvRows, storedShots>>
coachVars == <<sessionSummary, gappingLadder, planArgs, coachV2Plan, trendArgs, trendDeltas>>
ruleVars == <<insightShots, drillMemory, ruleInsights>>
numVars == <<numCell, numRet>>
registerVars == <<registerPayload, attempt, lastError, thrown, operationRuns, response>>
vars == <<pc, qVars, gapVars, shotVars, coachVars, ruleVars, numVars, registerVars>>

-----------------------------------------------------------------------------
(* Nullable values *)

NULL == <<>>
Some(v) == <<v>>
IsNull(x) == x = <<>>
Val(x) == x[1]

(* Math.round(a / b) for b > 0: rounds half towards +infinity *)
RoundDiv(a, b) == (2 * a + b) \div (2 * b)

Min2(a, b) == IF a <= b THEN a ELSE b
Max2(a, b) == IF a >= b THEN a ELSE b

(* coach-v2.ts clamp *)
clamp(value, min, max) == Min2(max, Max2(min, value))

-----------------------------------------------------------------------------
(* Bounds of the model *)

MaxLen == 4          \* longest `values` list handed to quantile
MaxGapTenths == 260  \* largest gap handed to classifyGap, in tenths of a yard
MaxShots == 5        \* longest shot list handed to markCarryOutliers
MaxClubs == 4        \* most clubs of a session summary
MaxRows == 3         \* most rows of a CSV file handed to mapRowsToShots
MaxDrillLogs == 2    \* most drill logs handed to buildRuleInsights
MaxCellLen == 5      \* longest enumerated cell handed to numeric
MaxCarryStdTenths == 340  \* largest carry std dev of the strike-score summaries, in tenths
MaxSummaryShots == 4  \* longest shot list handed to summarizeSession

-----------------------------------------------------------------------------
(* [...values].sort((a, b) => a - b): ascending, stable *)

RECURSIVE InsertAsc(_, _)
InsertAsc(x, s) ==
    IF s = <<>> THEN <<x>>
    ELSE IF x < Head(s) THEN <<x>> \o s
    ELSE <<Head(s)>> \o InsertAsc(x, Tail(s))

RECURSIVE SortAscFrom(_, _)
SortAscFrom(s, acc) ==
    IF s = <<>> THEN acc ELSE SortAscFrom(Tail(s), InsertAsc(Head(s), acc))

SortAsc(s) == SortAscFrom(s, <<>>)

(* quantile(values, q): q in twentieths, result in twentieths of the unit *)
quantilePosN(values, q20) ==
    IF Len(values) = 0 THEN NULL
    ELSE LET sorted == SortAsc(values)
             pos20 == Len(sorted) * q20
             base == pos20 \div 20
             rest20 == pos20 - 20 * base
         IN  IF base + 2 <= Len(sorted)
             THEN Some(20 * sorted[base + 1]
                       + rest20 * (sorted[base + 2] - sorted[base + 1]))
             ELSE Some(20 * sorted[Min2(base + 1, Len(sorted))])

quantile(values, q20) ==
    IF Len(values) = 0 THEN NULL
    ELSE LET sorted == SortAsc(values)
             pos20 == (Len(sorted) - 1) * q20
             base == pos20 \div 20            \* Math.floor(pos), 0-based
             rest20 == pos20 - 20 * base      \* pos - base
         IN  IF base + 2 <= Len(sorted)       \* sorted[base + 1] !== undefined
             THEN Some(20 * sorted[base + 1]
                       + rest20 * (sorted[base + 2] - sorted[base + 1]))
             ELSE Some(20 * sorted[base + 1])

(* toNumericArray: keeps the numbers of a list of number | null *)
toNumericArray(values) ==
    LET F[i \in 0..Len(values)] ==
            IF i = 0 THEN <<>>
            ELSE IF IsNull(values[i]) THEN F[i - 1]
            ELSE Append(F[i - 1], Val(values[i]))
    IN  F[Len(values)]

(* roundedQuantile: Math.round(value * 10) / 10, result in tenths *)
roundedQuantile(values, q20) ==
    LET value == quantile(toNumericArray(values), q20)
    IN  IF IsNull(value) THEN NULL ELSE Some(RoundDiv(Val(value), 20))

-----------------------------------------------------------------------------
(* classifyGap(family, gapToNextYds): thresholds in tenths of a yard *)

Families == {"wedge", "iron", "hybrid", "wood", "driver", "other"}

classifyGapCliffInclusive(family, gap) ==
    IF gap < 50 THEN "overlap"
    ELSE IF family \in {"hybrid", "wood", "driver"}
    THEN (IF gap >= 200 THEN "cliff"
          ELSE IF gap < 120 THEN "compressed" ELSE "healthy")
    ELSE (IF gap >= 180 THEN "cliff"
          ELSE IF gap < 80 THEN "compressed" ELSE "healthy")

classifyGap(family, gap) ==
    IF gap < 50 THEN "overlap"
    ELSE IF family = "wedge"
    THEN (IF gap > 180 THEN "cliff"
          ELSE IF gap < 80 THEN "compressed" ELSE "healthy")
    ELSE IF family = "iron"
    THEN (IF gap > 180 THEN "cliff"
          ELSE IF gap < 80 THEN "compressed" ELSE "healthy")
    ELSE IF family \in {"hybrid", "wood", "driver"}
    THEN (IF gap > 200 THEN "cliff"
          ELSE IF gap < 120 THEN "compressed" ELSE "healthy")
    ELSE (IF gap > 180 THEN "cliff"
          ELSE IF gap < 80 THEN "compressed" ELSE "healthy")

-----------------------------------------------------------------------------
(* Strings.  A string the code inspects character by character (club       *)
(* names, headers, cells) is a tuple of one-character strings; a string    *)
(* that is only compared whole (flags, statuses, keys) is a TLA+ string.   *)

UpperAlpha == <<"A", "B", "C", "D", "E", "F", "G", "H", "I", "J", "K", "L", "M",
                "N", "O", "P", "Q", "R", "S", "T", "U", "V", "W", "X", "Y", "Z">>
LowerAlpha == <<"a", "b", "c", "d", "e", "f", "g", "h", "i", "j", "k", "l", "m",
                "n", "o", "p", "q", "r", "s", "t", "u", "v", "w", "x", "y", "z">>
Digits == {"0", "1", "2", "3", "4", "5", "6", "7", "8", "9"}
Bom == "<U+FEFF>"
(* what \s and String.prototype.trim treat as white space *)
WhiteSpace == {" ", "\t", "\n", "\r", Bom}

LowerLetters == {LowerAlpha[i] : i \in 1..26}
(* the lower-case letter of every upper-case letter *)
LowerOf ==
    [c \in {UpperAlpha[i] : i \in 1..26} |-> LowerAlpha[CHOOSE i \in 1..26 : UpperAlpha[i] = c]]

toLowerCaseChar(c) == IF c \in DOMAIN LowerOf THEN LowerOf[c] ELSE c
toLowerCase(str) == [i \in 1..Len(str) |-> toLowerCaseChar(str[i])]

RECURSIVE trimStart(_)
trimStart(str) ==
    IF str # <<>> /\ Head(str) \in WhiteSpace THEN trimStart(Tail(str)) ELSE str
RECURSIVE trimEnd(_)
trimEnd(str) ==
    IF str # <<>> /\ str[Len(str)] \in WhiteSpace
    THEN trimEnd(SubSeq(str, 1, Len(str) - 1)) ELSE str
trim(str) == trimEnd(trimStart(str))

includes(str, sub) ==
    \E i \in 1..(Len(str) - Len(sub) + 1) : SubSeq(str, i, i + Len(sub) - 1) = sub

(* /^\d+\s*word$/.test(str) *)
MatchesNumbered(str, word) ==
    \E d \in 1..Len(str) : \E w \in d..Len(str) :
        /\ \A i \in 1..d : str[i] \in Digits
        /\ \A i \in (d + 1)..w : str[i] \in WhiteSpace
        /\ SubSeq(str, w + 1, Len(str)) = word

StrUnknown == <<"U", "n", "k", "n", "o", "w", "n">>
StrWedge == <<"w", "e", "d", "g", "e">>
StrIron == <<"i", "r", "o", "n">>
StrHybrid == <<"h", "y", "b", "r", "i", "d">>
StrWood == <<"w", "o", "o", "d">>
StrDriver == <<"d", "r", "i", "v", "e", "r">>
wedgeOrder == <<<<"l", "o", "b", " ", "w", "e", "d", "g", "e">>,
                <<"s", "a", "n", "d", " ", "w", "e", "d", "g", "e">>,
                <<"g", "a", "p", " ", "w", "e", "d", "g", "e">>,
                <<"a", "p", "p", "r", "o", "a", "c", "h", " ", "w", "e", "d", "g", "e">>,
                <<"p", "i", "t", "c", "h", "i", "n", "g", " ", "w", "e", "d", "g", "e">>,
                <<"w", "e", "d", "g", "e">>>>

ClubPitchingWedge == <<"P", "i", "t", "c", "h", "i", "n", "g", " ", "W", "e", "d", "g", "e">>
Club7Iron == <<"7", " ", "I", "r", "o", "n">>
Club3Hybrid == <<"3", " ", "H", "y", "b", "r", "i", "d">>
ClubDriver == <<"D", "r", "i", "v", "e", "r">>

getClubFamily(clubType) ==
    LET normalized == toLowerCase(trim(clubType))
    IN  IF (\E i \in 1..Len(wedgeOrder) : wedgeOrder[i] = normalized)
           \/ includes(normalized, StrWedge) THEN "wedge"
        ELSE IF MatchesNumbered(normalized, StrIron) THEN "iron"
        ELSE IF MatchesNumbered(normalized, StrHybrid) THEN "hybrid"
        ELSE IF MatchesNumbered(normalized, StrWood) \/ includes(normalized, StrWood)
        THEN "wood"
        ELSE IF normalized = StrDriver THEN "driver"
        ELSE "other"

-----------------------------------------------------------------------------
(* ShotRecord (r10.ts 12-32) as built by the row loop of mapRowsToShots    *)
(* (436-458): displayClub from the nickname, isOutlier false, and the two  *)
(* row-level quality flags.                                                *)

MkShot(clubType, clubName, clubModel, ballSpeed, launchAngle, carry, total, side, spin, raw) ==
    [clubType |-> clubType,
     clubName |-> clubName,
     clubModel |-> clubModel,
     displayClub |-> IF IsNull(clubName) THEN clubType
                     ELSE clubType \o <<" ", "(">> \o Val(clubName) \o <<")">>,
     ballSpeedMph |-> ballSpeed,
     launchAngleDeg |-> launchAngle,
     carryYds |-> carry,
     totalYds |-> total,
     sideYds |-> side,
     spinRpm |-> spin,
     isOutlier |-> FALSE,
     qualityFlags |->
         (IF clubType = StrUnknown THEN <<"missing_club_type">> ELSE <<>>)
         \o (IF ~IsNull(carry) /\ Val(carry) < 0
             THEN <<"invalid_carry_distance">> ELSE <<>>),
     raw |-> raw]

(* shot.clubType || 'Unknown' *)
GroupKey(shot) == IF shot.clubType = <<>> THEN StrUnknown ELSE shot.clubType

(* the elements of a list at the positions in `keep`, in order *)
SelectIdx(s, keep) ==
    LET F[i \in 0..Len(s)] ==
            IF i = 0 THEN <<>>
            ELSE IF i \in keep THEN Append(F[i - 1], s[i]) ELSE F[i - 1]
    IN  F[Len(s)]

(* byClub.get(key): the shots of one club, in list order *)
ClubShots(list, key) ==
    SelectIdx(list, {i \in 1..Len(list) : GroupKey(list[i]) = key})

CarriesOf(list) == [i \in 1..Len(list) |-> list[i].carryYds]

(* a flagging that also forgets the carry it found anomalous *)
FlagOutlierClearingCarry(shot) ==
    [shot EXCEPT !.isOutlier = TRUE,
                 !.qualityFlags = Append(@, "carry_outlier"),
                 !.carryYds = NULL]

FlagOutlier(shot) ==
    [shot EXCEPT !.isOutlier = TRUE,
                 !.qualityFlags = Append(@, "carry_outlier")]

(* a tagging that also flags a carry lying on a fence                      *)
TagShotFenceInclusive(list, shot) ==
    LET carries == toNumericArray(CarriesOf(ClubShots(list, GroupKey(shot))))
        q1 == quantile(carries, 5)
        q3 == quantile(carries, 15)
        iqr == Val(q3) - Val(q1)
    IN  IF Len(carries) < 4 THEN shot
        ELSE IF IsNull(shot.carryYds) THEN shot
        ELSE IF \/ 40 * Val(shot.carryYds) <= 2 * Val(q1) - 3 * iqr
                \/ 40 * Val(shot.carryYds) >= 2 * Val(q3) + 3 * iqr
        THEN FlagOutlier(shot)
        ELSE shot

(* One shot as the loops of markCarryOutliers leave it.  The fence is      *)
(* compared in fortieths of a tenth: lower * 40 = 2*q1 - 3*iqr with q1,    *)
(* iqr in twentieths.                                                      *)
TagShot(list, shot) ==
    LET carries == toNumericArray(CarriesOf(ClubShots(list, GroupKey(shot))))
        q1 == quantile(carries, 5)
        q3 == quantile(carries, 15)
        iqr == Val(q3) - Val(q1)
        lower40 == 2 * Val(q1) - 3 * iqr
        upper40 == 2 * Val(q3) + 3 * iqr
    IN  IF Len(carries) < 4 THEN shot
        ELSE IF IsNull(q1) \/ IsNull(q3) THEN shot
        ELSE IF IsNull(shot.carryYds) THEN shot
        ELSE IF \/ 40 * Val(shot.carryYds) < lower40
                \/ 40 * Val(shot.carryYds) > upper40
        THEN FlagOutlier(shot)
        ELSE shot

(* markCarryOutliers: every group is read and written once, and a shot's  *)
(* carry is never written, so the in-place loops amount to one pass.       *)
markCarryOutliers(list) == [i \in 1..Len(list) |-> TagShot(list, list[i])]

-----------------------------------------------------------------------------
(* Row parsing (r10.ts 92-161, 424-478).  A CSV row, a JavaScript object   *)
(* with string keys in column order, is a list of <<key, cell>> pairs with *)
(* distinct keys.                                                          *)

keyAliases ==
    [clubType |-> <<<<"c", "l", "u", "b", " ", "t", "y", "p", "e">>,
        <<"c", "l", "u", "b", "t", "y", "p", "e">>,
        <<"c", "l", "u", "b">>>>,
     clubName |-> <<<<"c", "l", "u", "b", " ", "n", "a", "m", "e">>>>,
     clubModel |-> <<<<"b", "r", "a", "n", "d", "/", "m", "o", "d", "e", "l">>,
        <<"b", "r", "a", "n", "d", " ", "m", "o", "d", "e", "l">>>>,
     ballSpeedMph |-> <<<<"b", "a", "l", "l", " ", "s", "p", "e", "e", "d">>,
        <<"b", "a", "l", "l", " ", "s", "p", "e", "e", "d", " ", "(", "m", "p", "h", ")">>>>,
     launchAngleDeg |-> <<<<"l", "a", "u", "n", "c", "h", " ", "a", "n", "g", "l", "e">>,
        <<"l", "a", "u", "n", "c", "h", " ", "a", "n", "g", "l", "e", " ", "(", "d", "e", "g", ")">>>>,
     carryYds |-> <<<<"c", "a", "r", "r", "y">>,
        <<"c", "a", "r", "r", "y", " ", "d", "i", "s", "t", "a", "n", "c", "e">>,
        <<"c", "a", "r", "r", "y", " ", "(", "y", "d", "s", ")">>,
        <<"c", "a", "r", "r", "y", " ", "(", "y", "a", "r", "d", "s", ")">>>>,
     totalYds |-> <<<<"t", "o", "t", "a", "l">>,
        <<"t", "o", "t", "a", "l", " ", "d", "i", "s", "t", "a", "n", "c", "e">>,
        <<"t", "o", "t", "a", "l", " ", "(", "y", "d", "s", ")">>,
        <<"t", "o", "t", "a", "l", " ", "(", "y", "a", "r", "d", "s", ")">>>>,
     sideYds |-> <<<<"s", "i", "d", "e">>,
        <<"s", "i", "d", "e", " ", "d", "i", "s", "t", "a", "n", "c", "e">>,
        <<"s", "i", "d", "e", " ", "(", "y", "d", "s", ")">>,
        <<"c", "a", "r", "r", "y", " ", "d", "e", "v", "i", "a", "t", "i", "o", "n", " ", "d", "i", "s", "t", "a", "n", "c", "e">>>>,
     spinRpm |-> <<<<"s", "p", "i", "n">>,
        <<"s", "p", "i", "n", " ", "r", "a", "t", "e">>,
        <<"s", "p", "i", "n", " ", "(", "r", "p", "m", ")">>>>]

(* .replace(/\uFEFF/g, '') *)
stripBom(str) == SelectIdx(str, {i \in 1..Len(str) : str[i] # Bom})

(* .replace(/[^a-z0-9\s]/g, ' '); the later .replace(/[_-]/g, ' ') finds   *)
(* nothing left to replace                                                 *)
blankPunctuation(str) ==
    [i \in 1..Len(str) |->
        IF str[i] \in LowerLetters \cup Digits \cup WhiteSpace THEN str[i] ELSE " "]

(* .replace(/\s+/g, ' '): every run of white space becomes one space       *)
collapseSpaces(str) ==
    LET F[i \in 0..Len(str)] ==
            IF i = 0 THEN <<>>
            ELSE IF str[i] \in WhiteSpace
            THEN (IF i > 1 /\ str[i - 1] \in WhiteSpace THEN F[i - 1]
                  ELSE Append(F[i - 1], " "))
            ELSE Append(F[i - 1], str[i])
    IN  F[Len(str)]

normalizeHeader(value) ==
    collapseSpaces(blankPunctuation(toLowerCase(trim(stripBom(value)))))

(* Object.keys(row).find(...): the first key an alias names, else NULL     *)
findKeyByAliases(row, aliases) ==
    LET Named(i) == normalizeHeader(row[i][1]) \in {aliases[a] : a \in 1..Len(aliases)}
    IN  IF \E i \in 1..Len(row) : Named(i)
        THEN Some(row[CHOOSE i \in 1..Len(row) :
                          Named(i) /\ \A j \in 1..(i - 1) : ~Named(j)][1])
        ELSE NULL

(* row[key ?? '']: the cell under the key, under the empty key when no key *)
(* was found; NULL is undefined                                            *)
cellAt(row, key) ==
    LET name == IF IsNull(key) THEN <<>> ELSE Val(key)
    IN  IF \E i \in 1..Len(row) : row[i][1] = name
        THEN Some(row[CHOOSE i \in 1..Len(row) : row[i][1] = name][2])
        ELSE NULL

(* row[key ?? '']?.trim() || fallback, the fallback being NULL or a string *)
textAt(row, key) ==
    IF IsNull(cellAt(row, key)) \/ trim(Val(cellAt(row, key))) = <<>> THEN NULL
    ELSE Some(trim(Val(cellAt(row, key))))

lastIndexOf(str, c) ==
    IF \E i \in 1..Len(str) : str[i] = c
    THEN CHOOSE i \in 1..Len(str) : str[i] = c /\ \A j \in (i + 1)..Len(str) : str[j] # c
    ELSE 0

(* .replace(',', '.'): the first comma only                                *)
replaceFirstComma(str) ==
    [i \in 1..Len(str) |->
        IF str[i] = "," /\ \A j \in 1..(i - 1) : str[j] # "," THEN "." ELSE str[i]]

without(str, chars) == SelectIdx(str, {i \in 1..Len(str) : str[i] \notin chars})

(* the separator handling of numeric (143-156)                             *)
normalizeSeparators(str) ==
    IF lastIndexOf(str, ",") > 0 /\ lastIndexOf(str, ".") > 0
    THEN (IF lastIndexOf(str, ",") > lastIndexOf(str, ".")
          THEN replaceFirstComma(without(str, {"."}))
          ELSE without(str, {","}))
    ELSE IF lastIndexOf(str, ",") > 0 THEN replaceFirstComma(str)
    ELSE str

(* .replace(/[^\d.-]/g, '') *)
keepNumberChars(str) ==
    SelectIdx(str, {i \in 1..Len(str) : str[i] \in Digits \cup {".", "-"}})

DigitValue(c) == CHOOSE v \in 0..9 : ToString(v) = c

RECURSIVE DigitsValue(_)
DigitsValue(str) ==
    IF str = <<>> THEN 0
    ELSE 10 * DigitsValue(SubSeq(str, 1, Len(str) - 1)) + DigitValue(str[Len(str)])

RECURSIVE Pow10(_)
Pow10(n) == IF n = 0 THEN 1 ELSE 10 * Pow10(n - 1)

(* the decimal mantissa / 10^scale without trailing zeros after the point *)
RECURSIVE Decimal(_, _)
Decimal(mantissa, scale) ==
    IF scale > 0 /\ mantissa % 10 = 0 THEN Decimal(mantissa \div 10, scale - 1)
    ELSE [mantissa |-> mantissa, scale |-> scale]

(* Number(str) of a string of digits, dots and minus signs: "" is 0; an    *)
(* optional minus, digits with at most one dot and at least one digit is   *)
(* the decimal; anything else is NaN (NULL here).  The value is exact: a   *)
(* signed mantissa and the count of digits after the point.                *)
DecimalOf(str) ==
    LET body == IF str # <<>> /\ Head(str) = "-" THEN Tail(str) ELSE str
        dot == lastIndexOf(body, ".")
        whole == IF dot = 0 THEN body ELSE SubSeq(body, 1, dot - 1)
        frac == IF dot = 0 THEN <<>> ELSE SubSeq(body, dot + 1, Len(body))
        magnitude == Decimal(DigitsValue(whole \o frac), Len(frac))
    IN  IF str = <<>> THEN Some(Decimal(0, 0))
        ELSE IF /\ \A i \in 1..Len(whole) : whole[i] \in Digits
                /\ \A i \in 1..Len(frac) : frac[i] \in Digits
                /\ Len(whole) + Len(frac) > 0
        THEN Some(IF body # str
                  THEN [magnitude EXCEPT !.mantissa = 0 - magnitude.mantissa]
                  ELSE magnitude)
        ELSE NULL

(* a decimal in tenths of the unit, which is how the shots hold a metric:  *)
(* the cells read into shots carry no digit after the first decimal        *)
TenthsOf(d) ==
    IF d.scale = 0 THEN 10 * d.mantissa
    ELSE IF d.mantissa < 0 THEN 0 - ((0 - d.mantissa) \div Pow10(d.scale - 1))
    ELSE d.mantissa \div Pow10(d.scale - 1)

NumberOf(str) == IF IsNull(DecimalOf(str)) THEN NULL ELSE Some(TenthsOf(Val(DecimalOf(str))))

(* numeric(value) with its exact result; value is NULL (undefined) or      *)
(* <<cell>>                                                                *)
numericDecimal(value) ==
    IF IsNull(value) \/ Val(value) = <<>> THEN NULL
    ELSE IF trim(Val(value)) = <<>> THEN NULL
    ELSE DecimalOf(keepNumberChars(normalizeSeparators(without(trim(Val(value)), WhiteSpace))))

(* numeric(value) as the shots hold it, in tenths                          *)
numeric(value) ==
    IF IsNull(value) \/ Val(value) = <<>> THEN NULL
    ELSE IF trim(Val(value)) = <<>> THEN NULL
    ELSE NumberOf(keepNumberChars(normalizeSeparators(without(trim(Val(value)), WhiteSpace))))

metricAt(row, aliases) == numeric(cellAt(row, findKeyByAliases(row, aliases)))

(* row[clubTypeKey ?? '']?.trim() || 'Unknown' *)
clubTypeAt(row, key) == IF IsNull(textAt(row, key)) THEN StrUnknown ELSE Val(textAt(row, key))

(* the shot built from one row (428-465)                                   *)
shotOfRow(row) ==
    MkShot(clubTypeAt(row, findKeyByAliases(row, keyAliases.clubType)),
           textAt(row, findKeyByAliases(row, keyAliases.clubName)),
           textAt(row, findKeyByAliases(row, keyAliases.clubModel)),
           metricAt(row, keyAliases.ballSpeedMph),
           metricAt(row, keyAliases.launchAngleDeg),
           metricAt(row, keyAliases.carryYds),
           metricAt(row, keyAliases.totalYds),
           metricAt(row, keyAliases.sideYds),
           metricAt(row, keyAliases.spinRpm),
           row)

hasAnyCoreMetric(shot) ==
    \/ ~IsNull(shot.ballSpeedMph)
    \/ ~IsNull(shot.launchAngleDeg)
    \/ ~IsNull(shot.carryYds)
    \/ ~IsNull(shot.totalYds)
    \/ ~IsNull(shot.sideYds)
    \/ ~IsNull(shot.spinRpm)

(* a rule that keeps only the rows of a known club                         *)
isDroppedUnknownClub(shot) == shot.clubType = StrUnknown

(* the test before `continue` (476)                                        *)
isDropped(shot) == shot.clubType = StrUnknown /\ ~hasAnyCoreMetric(shot)

(* the shots pushed by the row loop, in row order                          *)
RECURSIVE pushedShots(_)
pushedShots(rowList) ==
    IF rowList = <<>> THEN <<>>
    ELSE (IF isDropped(shotOfRow(Head(rowList))) THEN <<>>
          ELSE <<shotOfRow(Head(rowList))>>)
         \o pushedShots(Tail(rowList))

mapRowsToShots(rowList) == markCarryOutliers(pushedShots(rowList))

(* Session storage (session-storage.ts 33-40).  A StoredShot is a record   *)
(* without the field `raw`; the empty mapping {} is the empty list of      *)
(* <<key, cell>> pairs.                                                    *)

(* a persisting that also forgets the quality flags *)
toStoredShotWithoutFlags(shot) ==
    [k \in (DOMAIN shot) \ {"raw"} |-> IF k = "qualityFlags" THEN <<>> ELSE shot[k]]

(* ({ raw: _raw, ...rest }) => rest *)
toStoredShot(shot) == [k \in (DOMAIN shot) \ {"raw"} |-> shot[k]]

RECURSIVE toStoredShots(_)
toStoredShots(list) ==
    IF list = <<>> THEN <<>> ELSE <<toStoredShot(Head(list))>> \o toStoredShots(Tail(list))

(* (shot) => ({ ...shot, raw: {} }) *)
toShotRecord(stored) ==
    [k \in (DOMAIN stored) \cup {"raw"} |-> IF k = "raw" THEN <<>> ELSE stored[k]]

RECURSIVE toShotRecords(_)
toShotRecords(list) ==
    IF list = <<>> THEN <<>> ELSE <<toShotRecord(Head(list))>> \o toShotRecords(Tail(list))

-----------------------------------------------------------------------------
(* buildGappingLadder (r10.ts 310-387).  Texts are held as the template    *)
(* they come from and the values put into it.                              *)

(* a sort that puts a club before the clubs of equal median already placed *)
RECURSIVE InsertByMedianDescBeforeTies(_, _)
InsertByMedianDescBeforeTies(club, sorted) ==
    IF sorted = <<>> THEN <<club>>
    ELSE IF Val(club.medianCarryYds) >= Val(Head(sorted).medianCarryYds)
    THEN <<club>> \o sorted
    ELSE <<Head(sorted)>> \o InsertByMedianDescBeforeTies(club, Tail(sorted))

(* .sort((a, b) => b.medianCarryYds - a.medianCarryYds): descending, stable *)
RECURSIVE InsertByMedianDesc(_, _)
InsertByMedianDesc(club, sorted) ==
    IF sorted = <<>> THEN <<club>>
    ELSE IF Val(club.medianCarryYds) > Val(Head(sorted).medianCarryYds)
    THEN <<club>> \o sorted
    ELSE <<Head(sorted)>> \o InsertByMedianDesc(club, Tail(sorted))

RECURSIVE SortByMedianDescFrom(_, _)
SortByMedianDescFrom(clubs, acc) ==
    IF clubs = <<>> THEN acc
    ELSE SortByMedianDescFrom(Tail(clubs), InsertByMedianDesc(Head(clubs), acc))

eligibleClubs(summary) ==
    SortByMedianDescFrom(
        SelectIdx(summary.clubs,
                  {i \in 1..Len(summary.clubs) : ~IsNull(summary.clubs[i].medianCarryYds)}),
        <<>>)

buildGapWarning(status, club, nextClub, gapToNextYds, overlapYds) ==
    IF status = "healthy" THEN NULL
    ELSE IF status = "overlap" THEN Some(<<"overlap", club, nextClub, gapToNextYds>>)
    ELSE IF status = "compressed" THEN Some(<<"compressed", club, nextClub, gapToNextYds>>)
    ELSE IF ~IsNull(overlapYds) /\ Val(overlapYds) > 0
    THEN Some(<<"cliff_band_overlap", club, nextClub, Val(overlapYds)>>)
    ELSE Some(<<"cliff", club, nextClub, gapToNextYds>>)

(* a row whose gap is classified with the family of the next, shorter club *)
GappingRowAtNextFamily(eligible, index) ==
    LET current == eligible[index]
        hasNext == index + 1 <= Len(eligible)
        next == eligible[index + 1]
        gap == Val(current.medianCarryYds) - Val(next.medianCarryYds)
        overlapYds == IF ~IsNull(current.p10CarryYds) /\ ~IsNull(next.p90CarryYds)
                      THEN Some(Max2(0, Val(next.p90CarryYds) - Val(current.p10CarryYds)))
                      ELSE NULL
        gapStatus == classifyGap(getClubFamily(next.name), gap)
    IN  [club |-> current.name,
         displayClub |-> current.displayName,
         family |-> getClubFamily(current.name),
         medianCarryYds |-> Val(current.medianCarryYds),
         p10CarryYds |-> current.p10CarryYds,
         p90CarryYds |-> current.p90CarryYds,
         gapToNextYds |-> IF hasNext THEN Some(gap) ELSE NULL,
         gapStatus |-> IF hasNext THEN Some(gapStatus) ELSE NULL,
         overlapYds |-> IF hasNext THEN overlapYds ELSE NULL,
         warning |-> IF hasNext
                     THEN buildGapWarning(gapStatus, current.displayName,
                                          next.displayName, gap, overlapYds)
                     ELSE NULL]

GappingRowAt(eligible, index) ==
    LET current == eligible[index]
        hasNext == index + 1 <= Len(eligible)
        next == eligible[index + 1]
        gap == Val(current.medianCarryYds) - Val(next.medianCarryYds)
        overlapYds == IF ~IsNull(current.p10CarryYds) /\ ~IsNull(next.p90CarryYds)
                      THEN Some(Max2(0, Val(next.p90CarryYds) - Val(current.p10CarryYds)))
                      ELSE NULL
        gapStatus == classifyGap(getClubFamily(current.name), gap)
    IN  [club |-> current.name,
         displayClub |-> current.displayName,
         family |-> getClubFamily(current.name),
         medianCarryYds |-> Val(current.medianCarryYds),
         p10CarryYds |-> current.p10CarryYds,
         p90CarryYds |-> current.p90CarryYds,
         gapToNextYds |-> IF hasNext THEN Some(gap) ELSE NULL,
         gapStatus |-> IF hasNext THEN Some(gapStatus) ELSE NULL,
         overlapYds |-> IF hasNext THEN overlapYds ELSE NULL,
         warning |-> IF hasNext
                     THEN buildGapWarning(gapStatus, current.displayName,
                                          next.displayName, gap, overlapYds)
                     ELSE NULL]

CountStatus(rows, statuses) ==
    Cardinality({i \in 1..Len(rows) :
                    ~IsNull(rows[i].gapStatus) /\ Val(rows[i].gapStatus) \in statuses})

(* a ladder that calls a profile healthy whenever no alert fired, however  *)
(* few rows it has                                                         *)
buildGappingLadderHealthyAnyLength(summary) ==
    LET eligible == eligibleClubs(summary)
        rows == [index \in 1..Len(eligible) |-> GappingRowAt(eligible, index)]
        overlapCount == CountStatus(rows, {"overlap"})
        cliffCount == CountStatus(rows, {"cliff"})
        compressedCount == CountStatus(rows, {"compressed"})
        alerts ==
            (IF overlapCount > 0
             THEN <<[severity |-> "danger", message |-> <<"overlapping", overlapCount>>]>>
             ELSE <<>>)
            \o (IF cliffCount > 0
                THEN <<[severity |-> "danger", message |-> <<"cliffs", cliffCount>>]>>
                ELSE <<>>)
            \o (IF compressedCount > 0
                THEN <<[severity |-> "warning", message |-> <<"compressed", compressedCount>>]>>
                ELSE <<>>)
    IN  [rows |-> rows,
         insights |-> IF alerts = <<>>
                      THEN <<[severity |-> "info", message |-> <<"healthy">>]>>
                      ELSE alerts]

buildGappingLadder(summary) ==
    LET eligible == eligibleClubs(summary)
        rows == [index \in 1..Len(eligible) |-> GappingRowAt(eligible, index)]
        overlapCount == CountStatus(rows, {"overlap"})
        cliffCount == CountStatus(rows, {"cliff"})
        compressedCount == CountStatus(rows, {"compressed"})
        alerts ==
            (IF overlapCount > 0
             THEN <<[severity |-> "danger", message |-> <<"overlapping", overlapCount>>]>>
             ELSE <<>>)
            \o (IF cliffCount > 0
                THEN <<[severity |-> "danger", message |-> <<"cliffs", cliffCount>>]>>
                ELSE <<>>)
            \o (IF compressedCount > 0
                THEN <<[severity |-> "warning", message |-> <<"compressed", compressedCount>>]>>
                ELSE <<>>)
    IN  [rows |-> rows,
         insights |-> IF alerts = <<>> /\ Len(rows) > 1
                      THEN <<[severity |-> "info", message |-> <<"healthy">>]>>
                      ELSE alerts]

-----------------------------------------------------------------------------
(* The coach v2 constraint scorer (coach-v2.ts).  A std dev of v tenths    *)
(* scores Math.round(v/10 * 2.6) = RoundDiv(26 * v, 100).                  *)

(* worstClubByMetric: the first club holding the largest non-null metric;  *)
(* `metric` is the list of the selector's values, club by club             *)
worstClubIndex(metric) ==
    LET F[i \in 0..Len(metric)] ==
            IF i = 0 THEN 0
            ELSE IF IsNull(metric[i]) THEN F[i - 1]
            ELSE IF F[i - 1] = 0 \/ Val(metric[i]) > Val(metric[F[i - 1]]) THEN i
            ELSE F[i - 1]
    IN  F[Len(metric)]

worstClubByMetric(clubs, metric) ==
    LET w == worstClubIndex(metric)
    IN  [club |-> IF w = 0 THEN NULL ELSE Some(clubs[w]),
         value |-> IF w = 0 THEN NULL ELSE metric[w]]

(* `value ? a : b` on a number | null: null and 0 are falsy *)
Truthy(value) == ~IsNull(value) /\ Val(value) # 0

FocusOf(worst) == IF IsNull(worst.club) THEN NULL ELSE Some(Val(worst.club).displayName)

(* Math.round(value * 0.85 * 10) / 10 in tenths.  0.85 is no double: the   *)
(* double used is a little smaller, and for the std devs below (in tenths, *)
(* up to 200.0 yds) the double product falls just under the tie n.5 that   *)
(* the exact product 0.85 * value hits, so Math.round goes down where      *)
(* exact rounding goes up.                                                 *)
TargetTiesRoundedDown ==
    {130, 210, 470, 570, 790, 890, 990, 1090, 1190, 1530, 1630, 1730, 1830, 1930}

targetOf(value) ==
    IF value \in TargetTiesRoundedDown THEN RoundDiv(85 * value, 100) - 1
    ELSE RoundDiv(85 * value, 100)

buildDirectionScore(summary) ==
    LET worstDirection == worstClubByMetric(summary.clubs,
            [i \in 1..Len(summary.clubs) |-> summary.clubs[i].offlineStdDevYds])
        value == worstDirection.value
    IN  [key |-> "direction_consistency",
         label |-> "Direction consistency",
         score |-> clamp(RoundDiv(26 * (IF IsNull(value) THEN 0 ELSE Val(value)), 100), 0, 100),
         reasons |-> IF Truthy(value)
                     THEN << <<"widest_offline_spread", FocusOf(worstDirection), Val(value)>> >>
                     ELSE << <<"not_enough_offline_data">> >>,
         focusClub |-> FocusOf(worstDirection),
         targetMetric |-> "Offline std dev (yds)",
         currentValue |-> value,
         targetValue |-> IF Truthy(value) THEN Some(targetOf(Val(value))) ELSE NULL]

buildDistanceScore(summary) ==
    LET worstDistance == worstClubByMetric(summary.clubs,
            [i \in 1..Len(summary.clubs) |-> summary.clubs[i].carryStdDevYds])
        value == worstDistance.value
    IN  [key |-> "distance_control",
         label |-> "Distance control",
         score |-> clamp(RoundDiv(3 * (IF IsNull(value) THEN 0 ELSE Val(value)), 10), 0, 100),
         reasons |-> IF Truthy(value)
                     THEN << <<"highest_carry_variance", FocusOf(worstDistance), Val(value)>> >>
                     ELSE << <<"not_enough_carry_variance_data">> >>,
         focusClub |-> FocusOf(worstDistance),
         targetMetric |-> "Carry std dev (yds)",
         currentValue |-> value,
         targetValue |-> IF Truthy(value) THEN Some(targetOf(Val(value))) ELSE NULL]

FirstSevereRow(rows) ==
    LET F[i \in 0..Len(rows)] ==
            IF i = 0 THEN 0
            ELSE IF F[i - 1] # 0 THEN F[i - 1]
            ELSE IF ~IsNull(rows[i].gapStatus)
                    /\ Val(rows[i].gapStatus) \in {"overlap", "cliff"} THEN i
            ELSE 0
    IN  F[Len(rows)]

(* a gapping score left unclamped *)
buildGappingScoreUnclamped(summary, ladder) ==
    LET overlapCount == CountStatus(ladder.rows, {"overlap"})
        cliffCount == CountStatus(ladder.rows, {"cliff"})
        compressedCount == CountStatus(ladder.rows, {"compressed"})
        first == FirstSevereRow(ladder.rows)
    IN  [key |-> "bag_gapping",
         label |-> "Bag gapping",
         score |-> overlapCount * 35 + cliffCount * 28 + compressedCount * 12,
         reasons |-> << <<"detected", overlapCount, cliffCount, compressedCount>> >>,
         focusClub |-> IF first = 0 THEN NULL ELSE Some(ladder.rows[first].displayClub),
         targetMetric |-> "Gap alerts",
         currentValue |-> Some(overlapCount + cliffCount + compressedCount),
         targetValue |-> Some(Max2(0, overlapCount + cliffCount + compressedCount - 1))]

(* currentValue and targetValue of bag_gapping are alert counts *)
buildGappingScore(summary, ladder) ==
    LET overlapCount == CountStatus(ladder.rows, {"overlap"})
        cliffCount == CountStatus(ladder.rows, {"cliff"})
        compressedCount == CountStatus(ladder.rows, {"compressed"})
        first == FirstSevereRow(ladder.rows)
    IN  [key |-> "bag_gapping",
         label |-> "Bag gapping",
         score |-> clamp(overlapCount * 35 + cliffCount * 28 + compressedCount * 12, 0, 100),
         reasons |-> << <<"detected", overlapCount, cliffCount, compressedCount>> >>,
         focusClub |-> IF first = 0 THEN NULL ELSE Some(ladder.rows[first].displayClub),
         targetMetric |-> "Gap alerts",
         currentValue |-> Some(overlapCount + cliffCount + compressedCount),
         targetValue |-> Some(Max2(0, overlapCount + cliffCount + compressedCount - 1))]

(* a strike proxy of 1.55 times the distance score *)
buildStrikeScoreAboveDistance(summary, distanceScore) ==
    LET valueProxy == summary.avgBallSpeedMph
        score == IF IsNull(valueProxy) THEN 0
                 ELSE clamp(RoundDiv(155 * distanceScore.score, 100), 0, 100)
    IN  [key |-> "strike_quality",
         label |-> "Strike quality",
         score |-> score,
         reasons |-> IF IsNull(valueProxy) THEN << <<"ball_speed_missing">> >>
                     ELSE << <<"carry_variability_proxy">> >>,
         focusClub |-> distanceScore.focusClub,
         targetMetric |-> "Strike proxy score",
         currentValue |-> Some(score),
         targetValue |-> IF score > 0 THEN Some(Max2(0, score - 10)) ELSE NULL]

(* currentValue and targetValue of strike_quality are scores *)
buildStrikeScore(summary, distanceScore) ==
    LET valueProxy == summary.avgBallSpeedMph
        score == IF IsNull(valueProxy) THEN 0
                 ELSE clamp(RoundDiv(55 * distanceScore.score, 100), 0, 100)
    IN  [key |-> "strike_quality",
         label |-> "Strike quality",
         score |-> score,
         reasons |-> IF IsNull(valueProxy) THEN << <<"ball_speed_missing">> >>
                     ELSE << <<"carry_variability_proxy">> >>,
         focusClub |-> distanceScore.focusClub,
         targetMetric |-> "Strike proxy score",
         currentValue |-> Some(score),
         targetValue |-> IF score > 0 THEN Some(Max2(0, score - 10)) ELSE NULL]

(* a banding without the medium band *)
toConfidenceLevelTwoBands(score) ==
    IF score >= 75 THEN "high" ELSE "low"

toConfidenceLevel(score) ==
    IF score >= 75 THEN "high" ELSE IF score >= 45 THEN "medium" ELSE "low"

CountPopulated(scores) ==
    Cardinality({i \in 1..Len(scores) : ~IsNull(scores[i].currentValue)})

buildConfidence(summary, sessionsAnalyzed, scores) ==
    LET shotsScore == clamp(RoundDiv(summary.shots, 3), 0, 40)
        clubsScore == clamp(Len(summary.clubs) * 3, 0, 25)
        sessionsScore == clamp(sessionsAnalyzed * 4, 0, 20)
        populatedSignals == CountPopulated(scores)
        coverageScore == clamp(populatedSignals * 4, 0, 15)
        score == clamp(shotsScore + clubsScore + sessionsScore + coverageScore, 0, 100)
    IN  [level |-> toConfidenceLevel(score),
         score |-> score,
         shotsAnalyzed |-> summary.shots,
         clubsAnalyzed |-> Len(summary.clubs),
         sessionsAnalyzed |-> sessionsAnalyzed,
         reasons |-> << <<"shots_across_clubs", summary.shots, Len(summary.clubs)>>,
                        <<"sessions_included", sessionsAnalyzed>> >>
                     \o (IF populatedSignals < 3 THEN << <<"incomplete_families">> >>
                         ELSE <<>>)]

buildPracticeSteps(constraint) ==
    LET focusClub == IF IsNull(constraint.focusClub) THEN <<"focus club">>
                     ELSE constraint.focusClub
    IN  IF constraint.key = "direction_consistency"
        THEN <<"Alignment gate", focusClub, "Half-speed face control", "Random target test">>
        ELSE IF constraint.key = "distance_control"
        THEN <<"Stock carry ladder", focusClub, "Tempo lock block", "Distance challenge">>
        ELSE IF constraint.key = "bag_gapping"
        THEN <<"Gap retest around flagged clubs", "Neighbor club alternation",
               "Final ladder check">>
        ELSE <<"Centered contact block", focusClub, "Speed consistency drill", "Transfer set">>

buildPracticePlan(constraint, confidence) ==
    [durationMinutes |-> IF confidence.level = "high" THEN 30
                         ELSE IF confidence.level = "medium" THEN 25 ELSE 20,
     focus |-> <<constraint.label, constraint.focusClub>>,
     goal |-> IF ~IsNull(constraint.currentValue) /\ ~IsNull(constraint.targetValue)
              THEN <<constraint.targetMetric, Val(constraint.currentValue),
                     Val(constraint.targetValue)>>
              ELSE <<"improve_next_session", constraint.label>>,
     steps |-> buildPracticeSteps(constraint)]

buildTrendSummary(primary, secondary, confidence) ==
    IF IsNull(secondary)
    THEN <<confidence.level, confidence.score, primary.label>>
    ELSE <<confidence.level, confidence.score, primary.label, Val(secondary).label>>

(* a sort that puts an entry before the entries of equal score already placed *)
RECURSIVE InsertByScoreDescBeforeTies(_, _)
InsertByScoreDescBeforeTies(entry, sorted) ==
    IF sorted = <<>> THEN <<entry>>
    ELSE IF entry.score >= Head(sorted).score THEN <<entry>> \o sorted
    ELSE <<Head(sorted)>> \o InsertByScoreDescBeforeTies(entry, Tail(sorted))

(* .sort((a, b) => b.score - a.score): descending, stable *)
RECURSIVE InsertByScoreDesc(_, _)
InsertByScoreDesc(entry, sorted) ==
    IF sorted = <<>> THEN <<entry>>
    ELSE IF entry.score > Head(sorted).score THEN <<entry>> \o sorted
    ELSE <<Head(sorted)>> \o InsertByScoreDesc(entry, Tail(sorted))

RECURSIVE SortByScoreDescFrom(_, _)
SortByScoreDescFrom(entries, acc) ==
    IF entries = <<>> THEN acc
    ELSE SortByScoreDescFrom(Tail(entries), InsertByScoreDesc(Head(entries), acc))

SortByScoreDesc(entries) == SortByScoreDescFrom(entries, <<>>)

(* buildCoachV2Plan: `now` is the clock read of new Date(); the result is  *)
(* NULL or <<plan>>                                                        *)
(* the returned object, from the sorted scores and the values derived      *)
(* from them                                                               *)
CoachV2PlanOf(now, sorted, primaryConstraint, secondaryConstraint, confidence) ==
    [version |-> 2,
     generatedAt |-> now,
     constraintScores |-> sorted,
     primaryConstraint |-> primaryConstraint,
     secondaryConstraint |-> secondaryConstraint,
     confidence |-> confidence,
     practicePlan |-> buildPracticePlan(primaryConstraint, confidence),
     trendSummary |-> buildTrendSummary(primaryConstraint, secondaryConstraint, confidence)]

(* the plan once the four scores are sorted                                *)
CoachV2PlanFromSorted(summary, sessionsAnalyzed, now, sorted) ==
    CoachV2PlanOf(now, sorted, sorted[1],
                  IF sorted[2].score > 0 THEN Some(sorted[2]) ELSE NULL,
                  buildConfidence(summary, sessionsAnalyzed, sorted))

(* the four scores in the order the code lists them; the strike score is   *)
(* derived from the distance score                                         *)
ConstraintScoresOf(summary, ladder, distanceScore) ==
    <<buildDirectionScore(summary), distanceScore,
      buildGappingScore(summary, ladder), buildStrikeScore(summary, distanceScore)>>

(* a scorer without the no-clubs exit *)
buildCoachV2PlanNoExit(summary, ladder, sessionsAnalyzed, now) ==
    Some(CoachV2PlanFromSorted(summary, sessionsAnalyzed, now,
             SortByScoreDesc(ConstraintScoresOf(summary, ladder,
                                                buildDistanceScore(summary)))))

buildCoachV2Plan(summary, ladder, sessionsAnalyzed, now) ==
    IF Len(summary.clubs) = 0 THEN NULL
    ELSE Some(CoachV2PlanFromSorted(summary, sessionsAnalyzed, now,
                  SortByScoreDesc(ConstraintScoresOf(summary, ladder,
                                                     buildDistanceScore(summary)))))

-----------------------------------------------------------------------------
(* Trend deltas (part_004 20-168).  Metric values and deltas are in tenths *)
(* (an alert count or a score difference d is handed over as 10 * d), so   *)
(* Math.abs(delta) < 0.1 reads -1 < delta < 1.                             *)

(* a direction without the flat band *)
toDirectionNoFlatBand(delta, lowerIsBetter) ==
    IF IsNull(delta) THEN "insufficient"
    ELSE IF lowerIsBetter THEN (IF Val(delta) < 0 THEN "improved" ELSE "worsened")
    ELSE (IF Val(delta) > 0 THEN "improved" ELSE "worsened")

toDirection(delta, lowerIsBetter) ==
    IF IsNull(delta) THEN "insufficient"
    ELSE IF -1 < Val(delta) /\ Val(delta) < 1 THEN "flat"
    ELSE IF lowerIsBetter THEN (IF Val(delta) < 0 THEN "improved" ELSE "worsened")
    ELSE (IF Val(delta) > 0 THEN "improved" ELSE "worsened")

(* a metric delta that reads a missing baseline as 0 *)
buildMetricDeltaBaselineZero(key, label, current, baseline, unit, lowerIsBetter) ==
    [key |-> key,
     label |-> label,
     current |-> current,
     baseline |-> baseline,
     delta |-> IF IsNull(current) THEN NULL
               ELSE Some(Val(current) - (IF IsNull(baseline) THEN 0 ELSE Val(baseline))),
     direction |-> toDirection(IF IsNull(current) THEN NULL
                               ELSE Some(Val(current) - (IF IsNull(baseline) THEN 0
                                                         ELSE Val(baseline))),
                               lowerIsBetter),
     unit |-> unit]

buildMetricDelta(key, label, current, baseline, unit, lowerIsBetter) ==
    LET delta == IF IsNull(current) \/ IsNull(baseline) THEN NULL
                 ELSE Some(Val(current) - Val(baseline))
    IN  [key |-> key,
         label |-> label,
         current |-> current,
         baseline |-> baseline,
         delta |-> delta,
         direction |-> toDirection(delta, lowerIsBetter),
         unit |-> unit]

CountDirection(metrics, direction) ==
    Cardinality({i \in 1..Len(metrics) : metrics[i].direction = direction})

summarizeTrend(metrics, hasBaseline) ==
    IF ~hasBaseline THEN <<"No baseline yet">>
    ELSE <<"Trend check", CountDirection(metrics, "improved"),
           CountDirection(metrics, "worsened"), CountDirection(metrics, "flat")>>

ScoreOfKey(scores, key) ==
    LET F[i \in 0..Len(scores)] ==
            IF i = 0 THEN NULL
            ELSE IF ~IsNull(F[i - 1]) THEN F[i - 1]
            ELSE IF scores[i].key = key THEN Some(scores[i].score)
            ELSE NULL
    IN  F[Len(scores)]

(* an alert count that leaves the compressed gaps out *)
GapAlertsSevereOnly(rows) == CountStatus(rows, {"overlap", "cliff"})

GapAlerts(rows) == CountStatus(rows, {"overlap", "compressed", "cliff"})

(* a baseline score always read from the baseline's own primary constraint *)
BaselineScoreOfOwnPrimary(found, baselineCoach) == baselineCoach.primaryConstraint.score

(* the baseline's score for the latest primary constraint: the score with  *)
(* the same key, else the baseline's own primary score                     *)
BaselineScoreOf(found, baselineCoach) ==
    IF ~IsNull(found) THEN Val(found) ELSE baselineCoach.primaryConstraint.score

PrimaryDeltaOf(latestPrimary, baselineScore) ==
    [label |-> latestPrimary.label,
     currentScore |-> latestPrimary.score,
     baselineScore |-> baselineScore,
     deltaScore |-> latestPrimary.score - baselineScore,
     direction |-> toDirection(Some(10 * (latestPrimary.score - baselineScore)), TRUE)]

primaryConstraintDelta(latestCoach, baselineCoach) ==
    IF ~IsNull(latestCoach) /\ ~IsNull(baselineCoach)
    THEN Some(PrimaryDeltaOf(Val(latestCoach).primaryConstraint,
                  BaselineScoreOf(ScoreOfKey(Val(baselineCoach).constraintScores,
                                             Val(latestCoach).primaryConstraint.key),
                                  Val(baselineCoach))))
    ELSE NULL

TrendMetrics(latestSummary, latestGapAlerts, baselineSummary, baselineGapAlerts) ==
    <<buildMetricDelta("avg_carry_yds", "Average carry",
                       latestSummary.avgCarryYds,
                       IF IsNull(baselineSummary) THEN NULL
                       ELSE Val(baselineSummary).avgCarryYds,
                       "yds", FALSE),
      buildMetricDelta("avg_ball_speed_mph", "Average ball speed",
                       latestSummary.avgBallSpeedMph,
                       IF IsNull(baselineSummary) THEN NULL
                       ELSE Val(baselineSummary).avgBallSpeedMph,
                       "mph", FALSE),
      buildMetricDelta("gap_alerts", "Gap alerts",
                       Some(10 * latestGapAlerts), baselineGapAlerts,
                       "alerts", TRUE)>>

(* the returned object, from the values the function computes first        *)
TrendDeltasOf(baselineSummary, baselineSessionCount, metrics, latestCoach, baselineCoach) ==
    [baselineSessions |-> baselineSessionCount,
     hasBaseline |-> ~IsNull(baselineSummary),
     metrics |-> metrics,
     primaryConstraintDelta |-> primaryConstraintDelta(latestCoach, baselineCoach),
     summary |-> summarizeTrend(metrics, ~IsNull(baselineSummary))]

(* with the baseline's ladder built: baselineLadder is NULL or <<ladder>>   *)
TrendDeltasWithLadder(latestSummary, latestLadder, latestSessionCount, baselineSummary, baselineSessionCount, now, baselineLadder) ==
    TrendDeltasOf(baselineSummary, baselineSessionCount,
        TrendMetrics(latestSummary, GapAlerts(latestLadder.rows), baselineSummary,
                     IF IsNull(baselineLadder) THEN NULL
                     ELSE Some(10 * GapAlerts(Val(baselineLadder).rows))),
        buildCoachV2Plan(latestSummary, latestLadder, latestSessionCount, now),
        IF ~IsNull(baselineSummary) /\ ~IsNull(baselineLadder)
        THEN buildCoachV2Plan(Val(baselineSummary), Val(baselineLadder),
                              baselineSessionCount, now)
        ELSE NULL)

(* baselineSummary is NULL or <<summary>> *)
buildTrendDeltas(latestSummary, latestLadder, latestSessionCount, baselineSummary, baselineSessionCount, now) ==
    TrendDeltasWithLadder(latestSummary, latestLadder, latestSessionCount,
                          baselineSummary, baselineSessionCount, now,
                          IF IsNull(baselineSummary) THEN NULL
                          ELSE Some(buildGappingLadder(Val(baselineSummary))))

-----------------------------------------------------------------------------
(* Specification SpecQuantile: quantile and roundedQuantile applied to     *)
(* every list of at most MaxLen values drawn from two pools of carries.    *)

QPoolA == {100, 1000, 1100, 1200, 1300}
QPoolB == {1480, 1500, 1520, 3000}
QArgs == {2, 5, 10, 15, 18}     \* 0.1, 0.25, 0.5, 0.75, 0.9

SeqsUpTo(S, n) == UNION {[1..k -> S] : k \in 0..n}

IdleQuantile == qValues = NULL /\ qArg = NULL /\ qRet = NULL
IdleGap == gapFamily = NULL /\ gapYds = NULL /\ gapRet = NULL
IdleShots == shots = NULL /\ csvRows = NULL /\ storedShots = NULL
IdleCoach ==
    /\ sessionSummary = NULL /\ gappingLadder = NULL /\ planArgs = NULL
    /\ coachV2Plan = NULL /\ trendArgs = NULL /\ trendDeltas = NULL
IdleRules == insightShots = NULL /\ drillMemory = NULL /\ ruleInsights = NULL
IdleNumeric == numCell = NULL /\ numRet = NULL
IdleRegister ==
    /\ registerPayload = NULL /\ attempt = NULL /\ lastError = NULL
    /\ thrown = NULL /\ operationRuns = NULL /\ response = NULL

InitQuantile ==
    /\ IdleRegister
    /\ pc = "quantile"
    /\ qValues \in SeqsUpTo(QPoolA, MaxLen) \cup SeqsUpTo(QPoolB, MaxLen)
    /\ qArg = NULL
    /\ qRet = NULL
    /\ IdleGap /\ IdleShots /\ IdleCoach /\ IdleRules /\ IdleNumeric

CallQuantile ==
    /\ pc = "quantile"
    /\ \E q20 \in QArgs :
          /\ qArg' = Some(q20)
          /\ qRet' = [quantile |-> quantile(qValues, q20),
                      rounded |-> roundedQuantile([i \in 1..Len(qValues) |-> Some(qValues[i])], q20)]
    /\ pc' = "quantile_done"
    /\ UNCHANGED <<qValues, gapVars, shotVars, coachVars, ruleVars, numVars, registerVars>>

NextQuantile == CallQuantile

SpecQuantile == InitQuantile /\ [][NextQuantile]_vars

-----------------------------------------------------------------------------
(* Specification SpecGap: classifyGap applied to every family and every    *)
(* gap of 0.0 .. MaxGapTenths/10 yards.                                    *)

InitGap ==
    /\ IdleRegister
    /\ pc = "gap"
    /\ gapFamily \in Families
    /\ gapYds \in 0..MaxGapTenths
    /\ gapRet = NULL
    /\ IdleQuantile /\ IdleShots /\ IdleCoach /\ IdleRules /\ IdleNumeric

CallClassifyGap ==
    /\ pc = "gap"
    /\ gapRet' = Some(classifyGap(gapFamily, gapYds))
    /\ pc' = "gap_done"
    /\ UNCHANGED <<qVars, gapFamily, gapYds, shotVars, coachVars, ruleVars, numVars, registerVars>>

NextGap == CallClassifyGap

SpecGap == InitGap /\ [][NextGap]_vars

-----------------------------------------------------------------------------
(* Specification SpecShots: markCarryOutliers applied to every list of at  *)
(* most MaxShots freshly built shots of two clubs.                         *)

ShotPool ==
    {MkShot(Club7Iron, NULL, NULL, NULL, NULL, c, NULL, NULL, NULL, <<>>) :
        c \in {NULL, Some(1480), Some(1500), Some(1520), Some(3000)}}
    \cup {MkShot(ClubDriver, NULL, NULL, NULL, NULL, c, NULL, NULL, NULL, <<>>) :
        c \in {NULL, Some(2400)}}

InitShots ==
    /\ IdleRegister
    /\ pc = "shots"
    /\ shots \in SeqsUpTo(ShotPool, MaxShots)
    /\ csvRows = NULL /\ storedShots = NULL
    /\ IdleQuantile /\ IdleGap /\ IdleCoach /\ IdleRules /\ IdleNumeric

CallMarkCarryOutliers ==
    /\ pc = "shots"
    /\ shots' = markCarryOutliers(shots)
    /\ pc' = "tagged"
    /\ UNCHANGED <<qVars, gapVars, coachVars, csvRows, storedShots, ruleVars, numVars, registerVars>>

(* the tagger run once more on the list it has tagged *)
CallMarkCarryOutliersAgain ==
    /\ pc = "tagged"
    /\ shots' = markCarryOutliers(shots)
    /\ pc' = "retagged"
    /\ UNCHANGED <<qVars, gapVars, coachVars, csvRows, storedShots, ruleVars, numVars, registerVars>>

NextShots ==
    \/ CallMarkCarryOutliers
    \/ CallMarkCarryOutliersAgain

SpecShots == InitShots /\ [][NextShots]_vars

-----------------------------------------------------------------------------
(* Specification SpecParse: mapRowsToShots applied to every list of at     *)
(* most MaxRows rows of one CSV file.  A file has one header layout; a     *)
(* column is its header and the cells it may hold.                         *)

Column(header, cells) == [header |-> header, cells |-> cells]

(* "Club Type", "Carry Distance": the headers of a Garmin export *)
LayoutGarmin ==
    <<Column(<<"C", "l", "u", "b", " ", "T", "y", "p", "e">>,
             {<<>>, <<"7", " ", "I", "r", "o", "n">>}),
      Column(<<"C", "a", "r", "r", "y", " ", "D", "i", "s", "t", "a", "n", "c", "e">>,
             {<<>>, <<"1", "5", "0", ".", "5">>, <<"N", "/", "A">>})>>

(* a BOM before the first header, and a unit in parentheses *)
LayoutBomUnits ==
    <<Column(<<"<U+FEFF>", "C", "l", "u", "b", " ", "T", "y", "p", "e">>,
             {<<" ">>, <<"U", "n", "k", "n", "o", "w", "n">>, <<"D", "r", "i", "v", "e", "r">>}),
      Column(<<"C", "a", "r", "r", "y", " ", "(", "y", "d", "s", ")">>,
             {<<>>, <<"2", "1", "0">>})>>

(* no club type column; a dash for a missing value, decimal commas and   *)
(* thousands separators                                                  *)
LayoutNoClubType ==
    <<Column(<<"C", "l", "u", "b", " ", "N", "a", "m", "e">>,
             {<<>>, <<"G", "a", "m", "e", "r">>}),
      Column(<<"T", "o", "t", "a", "l">>,
             {<<"-">>, <<"-", "3", ",", "5">>, <<"1", ",", "2", "3", "4", ".", "5">>})>>

(* a column with an empty header, and an underscore in a header *)
LayoutEmptyHeader ==
    <<Column(<<>>, {<<>>, <<"7">>}),
      Column(<<"S", "p", "i", "n", "_", "R", "a", "t", "e">>,
             {<<>>, <<"2", "5", "0", "0">>})>>

Layouts == {LayoutGarmin, LayoutBomUnits, LayoutNoClubType, LayoutEmptyHeader}

(* the rows a layout admits: one cell per column, keys in column order *)
RowsOf(layout) ==
    {[i \in 1..Len(layout) |-> <<layout[i].header, cells[i]>>] :
        cells \in {c \in [1..Len(layout) -> UNION {layout[i].cells : i \in 1..Len(layout)}] :
                      \A i \in 1..Len(layout) : c[i] \in layout[i].cells}}

InitParse ==
    /\ IdleRegister
    /\ pc = "rows"
    /\ \E layout \in Layouts : csvRows \in SeqsUpTo(RowsOf(layout), MaxRows)
    /\ shots = NULL /\ storedShots = NULL
    /\ IdleQuantile /\ IdleGap /\ IdleCoach /\ IdleRules /\ IdleNumeric

CallMapRowsToShots ==
    /\ pc = "rows"
    /\ shots' = mapRowsToShots(csvRows)
    /\ pc' = "mapped"
    /\ UNCHANGED <<qVars, gapVars, coachVars, csvRows, storedShots, ruleVars, numVars, registerVars>>

(* the uploader persists the shots it has mapped (csv-uploader.tsx 523)    *)
CallToStoredShots ==
    /\ pc = "mapped"
    /\ storedShots' = toStoredShots(shots)
    /\ pc' = "stored"
    /\ UNCHANGED <<qVars, gapVars, coachVars, shots, csvRows, ruleVars, numVars, registerVars>>

(* a route rebuilds the shots of a stored session (sessions/route.ts 65)   *)
CallToShotRecords ==
    /\ pc = "stored"
    /\ shots' = toShotRecords(storedShots)
    /\ pc' = "restored"
    /\ UNCHANGED <<qVars, gapVars, coachVars, csvRows, storedShots, ruleVars, numVars, registerVars>>

(* the rebuilt shots persisted once more *)
CallToStoredShotsAgain ==
    /\ pc = "restored"
    /\ storedShots' = toStoredShots(shots)
    /\ pc' = "persisted"
    /\ UNCHANGED <<qVars, gapVars, coachVars, shots, csvRows, ruleVars, numVars, registerVars>>

NextParse ==
    \/ CallMapRowsToShots
    \/ CallToStoredShots
    \/ CallToShotRecords
    \/ CallToStoredShotsAgain

SpecParse == InitParse /\ [][NextParse]_vars

-----------------------------------------------------------------------------
(* Specification SpecHeaders: mapRowsToShots applied to one row whose      *)
(* first column is headed by an alias of keyAliases in one of six          *)
(* spellings, the other column making sure the row is kept: a club type    *)
(* beside a metric or a name, a carry beside a club type.                  *)

Fields ==
    {"clubType", "clubName", "clubModel", "ballSpeedMph", "launchAngleDeg",
     "carryYds", "totalYds", "sideYds", "spinRpm"}

TextFields == {"clubType", "clubName", "clubModel"}

UpperOf ==
    [c \in LowerLetters |-> UpperAlpha[CHOOSE i \in 1..26 : LowerAlpha[i] = c]]

toUpperCaseChar(c) == IF c \in DOMAIN UpperOf THEN UpperOf[c] ELSE c

RECURSIVE toUpperCase(_)
toUpperCase(str) ==
    IF str = <<>> THEN <<>> ELSE <<toUpperCaseChar(Head(str))>> \o toUpperCase(Tail(str))

Spellings == 1..6

(* the alias as listed, in capitals, capitalised, padded with blanks,      *)
(* after a byte-order mark, and all of these at once                       *)
Spelling(alias, k) ==
    CASE k = 1 -> alias
      [] k = 2 -> toUpperCase(alias)
      [] k = 3 -> <<toUpperCaseChar(Head(alias))>> \o Tail(alias)
      [] k = 4 -> <<" ">> \o alias \o <<" ", "\t">>
      [] k = 5 -> <<Bom>> \o alias
      [] k = 6 -> <<Bom, " ">> \o toUpperCase(alias) \o <<" ">>

CellSevenIron == <<"7", " ", "I", "r", "o", "n">>
CellGamer == <<"G", "a", "m", "e", "r">>
CellCarry == <<"1", "5", "0">>

CellFor(field) ==
    IF field = "clubType" THEN CellSevenIron
    ELSE IF field \in TextFields THEN CellGamer
    ELSE CellCarry

HeaderRow(field, header) ==
    <<<<header, CellFor(field)>>,
      IF field = "clubType" THEN <<<<"C", "a", "r", "r", "y">>, CellCarry>>
      ELSE <<<<"C", "l", "u", "b", " ", "T", "y", "p", "e">>, CellSevenIron>>>>

HeaderRows ==
    {HeaderRow(field, Spelling(keyAliases[field][a], k)) :
        <<field, a, k>> \in {t \in Fields \X (1..4) \X Spellings : t[2] <= Len(keyAliases[t[1]])}}

InitHeaders ==
    /\ IdleRegister
    /\ pc = "rows"
    /\ \E row \in HeaderRows : csvRows = <<row>>
    /\ shots = NULL /\ storedShots = NULL
    /\ IdleQuantile /\ IdleGap /\ IdleCoach /\ IdleRules /\ IdleNumeric

NextHeaders == CallMapRowsToShots

SpecHeaders == InitHeaders /\ [][NextHeaders]_vars

-----------------------------------------------------------------------------
(* Specification SpecCoach: the session route's call sequence              *)
(* buildGappingLadder -> buildCoachV2Plan / buildTrendDeltas on summaries  *)
(* of at most MaxClubs clubs.  A summary is drawn with the shape           *)
(* summarizeSession gives it: clubs in compareClubTypeOrder, P10 <= median *)
(* <= P90, a std dev only for a club of two shots or more, the session's   *)
(* shot count the sum of the clubs'.                                       *)

ClubOther == <<"U", "n", "k", "n", "o", "w", "n">>
Roster == <<ClubPitchingWedge, Club7Iron, Club3Hybrid, ClubDriver, ClubOther>>

MkStats(n, median, spread, carryStd, offlineStd) ==
    [shots |-> n,
     medianCarryYds |-> median,
     p10CarryYds |-> IF IsNull(median) THEN NULL ELSE Some(Val(median) - spread),
     p90CarryYds |-> IF IsNull(median) THEN NULL ELSE Some(Val(median) + spread),
     carryStdDevYds |-> carryStd,
     offlineStdDevYds |-> offlineStd]

ClubStatsPool ==
    {MkStats(1, NULL, 0, NULL, NULL),
     MkStats(1, Some(1000), 0, NULL, NULL),
     MkStats(2, Some(1040), 0, Some(0), Some(0)),
     MkStats(8, Some(1100), 170, Some(130), Some(150)),
     MkStats(40, Some(1300), 60, Some(52), Some(400)),
     MkStats(40, Some(1300), 500, Some(400), NULL)}

MkClub(name, stats) ==
    [name |-> name,
     displayName |-> name,
     shotLabels |-> <<>>,
     modelLabels |-> <<>>,
     shots |-> stats.shots,
     avgCarryYds |-> stats.medianCarryYds,
     medianCarryYds |-> stats.medianCarryYds,
     p10CarryYds |-> stats.p10CarryYds,
     p90CarryYds |-> stats.p90CarryYds,
     carryStdDevYds |-> stats.carryStdDevYds,
     offlineStdDevYds |-> stats.offlineStdDevYds]

RECURSIVE SumOver(_, _)
SumOver(f, n) == IF n = 0 THEN 0 ELSE f[n] + SumOver(f, n - 1)

(* the session-wide mean carry when every club's carries average at its    *)
(* median: the shot-weighted mean, rounded to a tenth                      *)
MeanCarry(clubs) ==
    LET w == [i \in 1..Len(clubs) |->
                 IF IsNull(clubs[i].medianCarryYds) THEN 0 ELSE clubs[i].shots]
        t == [i \in 1..Len(clubs) |->
                 IF IsNull(clubs[i].medianCarryYds) THEN 0
                 ELSE clubs[i].shots * Val(clubs[i].medianCarryYds)]
    IN  IF SumOver(w, Len(clubs)) = 0 THEN NULL
        ELSE Some(RoundDiv(SumOver(t, Len(clubs)), SumOver(w, Len(clubs))))

MkSummary(stats, ballSpeed) ==
    LET clubs == [i \in 1..Len(stats) |-> MkClub(Roster[i], stats[i])]
    IN  [shots |-> SumOver([i \in 1..Len(clubs) |-> clubs[i].shots], Len(clubs)),
         avgCarryYds |-> MeanCarry(clubs),
         avgBallSpeedMph |-> ballSpeed,
         avgLaunchAngleDeg |-> NULL,
         avgSpinRpm |-> NULL,
         clubs |-> clubs]

BallSpeeds == {NULL, Some(1200)}
SessionCounts == {1, 6}
ClockReads == {0, 1}

Summaries ==
    {MkSummary(stats, speed) : stats \in SeqsUpTo(ClubStatsPool, MaxClubs),
                               speed \in BallSpeeds}

(* the baselines a trend call is given: none, the latest summary itself,   *)
(* or the summary of other sessions                                        *)
OtherBaselines ==
    {MkSummary(<<>>, NULL),
     MkSummary(<<MkStats(8, Some(1100), 170, Some(130), Some(150)),
                 MkStats(1, Some(1000), 0, NULL, NULL)>>, Some(1215)),
     MkSummary(<<MkStats(1, Some(1000), 0, NULL, NULL),
                 MkStats(1, Some(1000), 0, NULL, NULL)>>, Some(1190))}

InitCoach ==
    /\ IdleRegister
    /\ pc = "summary"
    /\ sessionSummary \in Summaries
    /\ gappingLadder = NULL /\ planArgs = NULL /\ coachV2Plan = NULL
    /\ trendArgs = NULL /\ trendDeltas = NULL
    /\ IdleQuantile /\ IdleGap /\ IdleShots /\ IdleRules /\ IdleNumeric

CallBuildGappingLadder ==
    /\ pc = "summary"
    /\ gappingLadder' = buildGappingLadder(sessionSummary)
    /\ pc' = "ladder"
    /\ UNCHANGED <<qVars, gapVars, shotVars, sessionSummary, planArgs, coachV2Plan, trendArgs, trendDeltas, ruleVars, numVars, registerVars>>

CallBuildCoachV2Plan ==
    /\ pc = "ladder"
    /\ \E sessionsAnalyzed \in SessionCounts, now \in ClockReads :
          /\ planArgs' = [sessionsAnalyzed |-> sessionsAnalyzed]
          /\ coachV2Plan' = buildCoachV2Plan(sessionSummary, gappingLadder, sessionsAnalyzed, now)
    /\ pc' = "plan"
    /\ UNCHANGED <<qVars, gapVars, shotVars, sessionSummary, gappingLadder, trendArgs, trendDeltas, ruleVars, numVars, registerVars>>

(* buildCoachV2Plan invoked once more with the same summary, ladder and    *)
(* options, the clock having moved on or not                               *)
CallBuildCoachV2PlanAgain ==
    /\ pc = "plan"
    /\ \E now \in ClockReads :
          coachV2Plan' = buildCoachV2Plan(sessionSummary, gappingLadder, planArgs.sessionsAnalyzed, now)
    /\ pc' = "replanned"
    /\ UNCHANGED <<qVars, gapVars, shotVars, sessionSummary, gappingLadder, planArgs, trendArgs, trendDeltas, ruleVars, numVars, registerVars>>

(* the baselines a trend call is given (the routes pass null when no other *)
(* session exists, otherwise the summary of the other sessions)            *)
BaselinesFor(latest) ==
    {NULL, Some(latest)} \cup {Some(b) : b \in OtherBaselines}

(* the session count passed with a baseline: 0 with none                   *)
BaselineCounts(baselineSummary) ==
    IF IsNull(baselineSummary) THEN {0} ELSE {3}

(* the two plans built inside buildTrendDeltas read the clock, but their   *)
(* generatedAt does not reach the result: one clock read stands for all    *)
CallBuildTrendDeltas ==
    /\ pc = "ladder"
    /\ \E latestSessionCount \in SessionCounts,
          baselineSummary \in BaselinesFor(sessionSummary) :
          \E baselineSessionCount \in BaselineCounts(baselineSummary) :
              /\ trendArgs' = [latestSessionCount |-> latestSessionCount,
                               baselineSummary |-> baselineSummary,
                               baselineSessionCount |-> baselineSessionCount]
              /\ trendDeltas' = buildTrendDeltas(sessionSummary, gappingLadder, latestSessionCount,
                                           baselineSummary, baselineSessionCount,
                                           CHOOSE now \in ClockReads : TRUE)
    /\ pc' = "trend"
    /\ UNCHANGED <<qVars, gapVars, shotVars, sessionSummary, gappingLadder, planArgs, coachV2Plan, ruleVars, numVars, registerVars>>

NextCoach ==
    \/ CallBuildGappingLadder
    \/ CallBuildCoachV2Plan
    \/ CallBuildCoachV2PlanAgain
    \/ CallBuildTrendDeltas

SpecCoach == InitCoach /\ [][NextCoach]_vars

-----------------------------------------------------------------------------
(* Specification SpecStrike: the ladder and the plan built for a session   *)
(* of one club whose carry std dev runs over every tenth up to             *)
(* MaxCarryStdTenths (every distance score from 0 to 100), its offline std *)
(* dev missing, 0 or 0.4 yds, with or without a second club level with it  *)
(* (an overlap) and with or without an average ball speed.                 *)

StrikeOfflineSpreads == {NULL, Some(0), Some(4)}

StrikeClubs ==
    {<<MkStats(8, Some(1100), 170, Some(carryStd), offlineStd)>> \o second :
        carryStd \in 0..MaxCarryStdTenths,
        offlineStd \in StrikeOfflineSpreads,
        second \in {<<>>, <<MkStats(1, Some(1100), 0, NULL, NULL)>>}}

StrikeSummaries ==
    {MkSummary(stats, speed) : stats \in StrikeClubs, speed \in BallSpeeds}

InitStrike ==
    /\ IdleRegister
    /\ pc = "summary"
    /\ sessionSummary \in StrikeSummaries
    /\ gappingLadder = NULL /\ planArgs = NULL /\ coachV2Plan = NULL
    /\ trendArgs = NULL /\ trendDeltas = NULL
    /\ IdleQuantile /\ IdleGap /\ IdleShots /\ IdleRules /\ IdleNumeric

NextStrike ==
    \/ CallBuildGappingLadder
    \/ CallBuildCoachV2Plan

SpecStrike == InitStrike /\ [][NextStrike]_vars

-----------------------------------------------------------------------------
(* The rule insight engine (part_004 5-11, 59-86, 170-288).  A square root *)
(* is never taken: a std dev is held as its variance, a correlation as its *)
(* numerator and the two sums of squares, each scaled by the square of the *)
(* sample size so that the means need no division.  The evidence texts,    *)
(* which print the rounded roots, are held by their template only.         *)

RULE_MIN_SHOTS_FOR_SPEED_CARRY == 20
RULE_MIN_SHOTS_FOR_FATIGUE == 70
RULE_FATIGUE_SPLIT_SHOT == 60
RULE_MIN_TOP_CLUB_SHOTS == 8
RULE_TOP_CLUB_OFFLINE_STD == 150

RECURSIVE SumFrom(_, _)
SumFrom(x, i) == IF i > Len(x) THEN 0 ELSE x[i] + SumFrom(x, i + 1)

RECURSIVE DotFrom(_, _, _)
DotFrom(x, y, i) == IF i > Len(x) THEN 0 ELSE x[i] * y[i] + DotFrom(x, y, i + 1)

(* a / b > c / d for a, c >= 0 and b, d > 0, compared by continued         *)
(* fractions so that no product is formed                                  *)
RECURSIVE RatioGreater(_, _, _, _)
RatioGreater(a, b, c, d) ==
    IF a \div b # c \div d THEN a \div b > c \div d
    ELSE IF a % b = 0 THEN FALSE
    ELSE IF c % d = 0 THEN TRUE
    ELSE RatioGreater(d, c % d, b, a % b)

(* the values n * x[i] - sum(x): the deviations from the mean, times n *)
RECURSIVE CenteredFrom(_, _, _)
CenteredFrom(x, total, i) ==
    IF i > Len(x) THEN <<>>
    ELSE <<Len(x) * x[i] - total>> \o CenteredFrom(x, total, i + 1)

Centered(x) == CenteredFrom(x, SumFrom(x, 1), 1)

(* stdDev(values): NULL under two values, else the sample variance         *)
(* num / den that the returned root is the root of                         *)
VarianceOf(centered) ==
    [num |-> DotFrom(centered, centered, 1),
     den |-> Len(centered) * Len(centered) * (Len(centered) - 1)]

stdDev(values) ==
    IF Len(values) < 2 THEN NULL ELSE Some(VarianceOf(Centered(values)))

(* correlation(x, y): NULL, or the numerator and the two denominators *)
CorrelationOf(cx, cy) ==
    IF DotFrom(cx, cx, 1) = 0 \/ DotFrom(cy, cy, 1) = 0 THEN NULL
    ELSE Some([numerator |-> DotFrom(cx, cy, 1),
               denominatorX |-> DotFrom(cx, cx, 1),
               denominatorY |-> DotFrom(cy, cy, 1)])

correlation(x, y) ==
    IF Len(x) < 3 \/ Len(y) # Len(x) THEN NULL
    ELSE CorrelationOf(Centered(x), Centered(y))

(* r > RULE_SPEED_CARRY_CORRELATION (0.55 = 11/20):                        *)
(* numerator > 0 and 400 * numerator^2 > 121 * denominatorX * denominatorY *)
AboveSpeedCarryCorrelation(r) ==
    /\ r.numerator > 0
    /\ RatioGreater(400 * r.numerator, 121 * r.denominatorX, r.denominatorY, r.numerator)

(* lateStd > earlyStd * RULE_FATIGUE_MULTIPLIER (1.2 = 6/5):               *)
(* 25 * late variance > 36 * early variance                                *)
AboveFatigueMultiplier(lateStd, earlyStd) ==
    RatioGreater(25 * lateStd.num, lateStd.den, 36 * earlyStd.num, earlyStd.den)

(* [...summary.clubs].sort((a, b) => b.shots - a.shots)[0] ?? null: the    *)
(* first club of the largest shot count                                    *)
topClubByShotCount(summary) ==
    IF Len(summary.clubs) = 0 THEN NULL
    ELSE Some(summary.clubs[
             CHOOSE i \in 1..Len(summary.clubs) :
                 /\ \A j \in 1..Len(summary.clubs) :
                        summary.clubs[j].shots <= summary.clubs[i].shots
                 /\ \A j \in 1..(i - 1) :
                        summary.clubs[j].shots < summary.clubs[i].shots])

RuleInsight(id, severity, detail) == [id |-> id, severity |-> severity, detail |-> detail]

(* the shots holding both a ball speed and a carry (177-179) *)
speedCarryPairs(shotList) ==
    SelectIdx(shotList, {i \in 1..Len(shotList) :
                             ~IsNull(shotList[i].ballSpeedMph) /\ ~IsNull(shotList[i].carryYds)})

RECURSIVE SpeedsOf(_)
SpeedsOf(pairs) == IF pairs = <<>> THEN <<>> ELSE <<Val(Head(pairs).ballSpeedMph)>> \o SpeedsOf(Tail(pairs))
RECURSIVE CarryValuesOf(_)
CarryValuesOf(pairs) == IF pairs = <<>> THEN <<>> ELSE <<Val(Head(pairs).carryYds)>> \o CarryValuesOf(Tail(pairs))

SpeedCarryInsight(pairs, r) ==
    IF ~IsNull(r) /\ AboveSpeedCarryCorrelation(Val(r))
       /\ Len(pairs) >= RULE_MIN_SHOTS_FOR_SPEED_CARRY
    THEN <<RuleInsight("speed-carry-linked", "info", <<Len(pairs)>>)>>
    ELSE <<>>

(* shots.slice(from, to).map(sideYds).filter(not null); from is 0-based *)
RECURSIVE SidesBetween(_, _, _)
SidesBetween(shotList, from, to) ==
    IF from >= to \/ from >= Len(shotList) THEN <<>>
    ELSE (IF IsNull(shotList[from + 1].sideYds) THEN <<>>
          ELSE <<Val(shotList[from + 1].sideYds)>>)
         \o SidesBetween(shotList, from + 1, to)

FatigueInsightOf(earlyStd, lateStd) ==
    IF ~IsNull(earlyStd) /\ ~IsNull(lateStd)
       /\ AboveFatigueMultiplier(Val(lateStd), Val(earlyStd))
    THEN <<RuleInsight("fatigue-dispersion", "warning", <<>>)>>
    ELSE <<>>

(* a fatigue rule without the 70-shot minimum *)
FatigueInsightNoMinimum(shotList) ==
    FatigueInsightOf(stdDev(SidesBetween(shotList, 0, RULE_FATIGUE_SPLIT_SHOT)),
                     stdDev(SidesBetween(shotList, RULE_FATIGUE_SPLIT_SHOT, Len(shotList))))

FatigueInsight(shotList) ==
    IF Len(shotList) >= RULE_MIN_SHOTS_FOR_FATIGUE
    THEN FatigueInsightOf(stdDev(SidesBetween(shotList, 0, RULE_FATIGUE_SPLIT_SHOT)),
                          stdDev(SidesBetween(shotList, RULE_FATIGUE_SPLIT_SHOT, Len(shotList))))
    ELSE <<>>

TopClubInsight(topClub) ==
    IF /\ ~IsNull(topClub)
       /\ Val(topClub).shots >= RULE_MIN_TOP_CLUB_SHOTS
       /\ ~IsNull(Val(topClub).offlineStdDevYds)
       /\ Val(Val(topClub).offlineStdDevYds) > RULE_TOP_CLUB_OFFLINE_STD
    THEN <<RuleInsight("top-club-dispersion", "warning",
                       <<Val(topClub).displayName, Val(topClub).shots,
                         Val(Val(topClub).offlineStdDevYds)>>)>>
    ELSE <<>>

GapInsight(severeGapCount) ==
    IF severeGapCount > 0
    THEN <<RuleInsight("gap-alerts-present",
                       IF severeGapCount >= 2 THEN "danger" ELSE "warning",
                       <<severeGapCount>>)>>
    ELSE <<>>

(* a filter that keeps the rated logs of every constraint *)
matchingDrillsAnyKey(latestCoach, drillLogs) ==
    IF IsNull(latestCoach) THEN <<>>
    ELSE SelectIdx(drillLogs,
                   {i \in 1..Len(drillLogs) : ~IsNull(drillLogs[i].perceivedOutcome)})

(* drillLogs.filter(constraintKey === primaryKey && typeof perceivedOutcome *)
(* === 'number'), or [] without a primary key                              *)
matchingDrills(latestCoach, drillLogs) ==
    IF IsNull(latestCoach) THEN <<>>
    ELSE SelectIdx(drillLogs,
                   {i \in 1..Len(drillLogs) :
                        /\ drillLogs[i].constraintKey = Some(Val(latestCoach).primaryConstraint.key)
                        /\ ~IsNull(drillLogs[i].perceivedOutcome)})

RECURSIVE OutcomesOf(_)
OutcomesOf(logs) == IF logs = <<>> THEN <<>> ELSE <<Val(Head(logs).perceivedOutcome)>> \o OutcomesOf(Tail(logs))

(* [...matchingDrills].sort(by perceivedOutcome, descending)[0]: the first *)
(* log of the best outcome                                                 *)
bestDrill(logs) ==
    logs[CHOOSE i \in 1..Len(logs) :
             /\ \A j \in 1..Len(logs) :
                    Val(logs[j].perceivedOutcome) <= Val(logs[i].perceivedOutcome)
             /\ \A j \in 1..(i - 1) :
                    Val(logs[j].perceivedOutcome) < Val(logs[i].perceivedOutcome)]

(* avgOutcome >= 3.8: 10 * sum >= 38 * count *)
DrillInsight(logs) ==
    IF Len(logs) >= 2
    THEN <<RuleInsight("drill-memory",
                       IF 10 * SumFrom(OutcomesOf(logs), 1) >= 38 * Len(logs)
                       THEN "info" ELSE "warning",
                       <<Len(logs), bestDrill(logs).drillName>>)>>
    ELSE <<>>

FallbackInsight == RuleInsight("no-major-rule-trigger", "info", <<>>)

(* a fallback that is pushed whatever the rules found *)
WithFallbackAlways(insights) == insights \o <<FallbackInsight>>

(* if (!insights.length) insights.push(fallback) (276-285) *)
WithFallback(insights) == IF insights = <<>> THEN <<FallbackInsight>> ELSE insights

RuleInsightsOf(shotList, pairs, topClub, severeGapCount, matching) ==
    WithFallback(
        SpeedCarryInsight(pairs, correlation(SpeedsOf(pairs), CarryValuesOf(pairs)))
        \o FatigueInsight(shotList)
        \o TopClubInsight(topClub)
        \o GapInsight(severeGapCount)
        \o DrillInsight(matching))

(* the plan built inside reads the clock, but only its primary constraint  *)
(* is used: one clock read stands for all                                  *)
buildRuleInsights(shotList, summary, ladder, drillLogs) ==
    RuleInsightsOf(shotList,
                   speedCarryPairs(shotList),
                   topClubByShotCount(summary),
                   CountStatus(ladder.rows, {"overlap", "cliff"}),
                   matchingDrills(buildCoachV2Plan(summary, ladder, 1, CHOOSE now \in ClockReads : TRUE),
                                  drillLogs))

-----------------------------------------------------------------------------
(* Specification SpecRules: buildRuleInsights as the session route calls   *)
(* it, on a summary of at most three clubs with the ladder built from it,  *)
(* a shot list of one of the shapes below and at most MaxDrillLogs drill   *)
(* logs.  The shot lists are the ones the 20-pair and 70-shot rules tell   *)
(* apart: too short, long enough, correlated or not, wider late or not.    *)

RuleShot(speed, carry, side) ==
    MkShot(Club7Iron, NULL, NULL, speed, NULL, carry, NULL, side, NULL, <<>>)

RECURSIVE Repeat(_, _)
Repeat(block, k) == IF k = 0 THEN <<>> ELSE block \o Repeat(block, k - 1)

(* two shots whose carry rises with ball speed, and two where it falls *)
Concordant == <<RuleShot(Some(1000), Some(1500), NULL), RuleShot(Some(1010), Some(1520), NULL)>>
Discordant == <<RuleShot(Some(1000), Some(1520), NULL), RuleShot(Some(1010), Some(1500), NULL)>>
SameSpeed == <<RuleShot(Some(1000), Some(1500), NULL), RuleShot(Some(1000), Some(1520), NULL)>>
(* two shots 2 yds apart sideways, two 10 yds apart, two unmeasured *)
Tight == <<RuleShot(NULL, Some(1500), Some(-10)), RuleShot(NULL, Some(1500), Some(10))>>
Wide == <<RuleShot(NULL, Some(1500), Some(-50)), RuleShot(NULL, Some(1500), Some(50))>>
(* 2.2 yds apart: a late std dev of about 1.15 times the early one *)
Wider == <<RuleShot(NULL, Some(1500), Some(-11)), RuleShot(NULL, Some(1500), Some(11))>>
NoSide == <<RuleShot(NULL, Some(1500), NULL), RuleShot(NULL, Some(1500), NULL)>>

ShotLists ==
    {<<>>,
     Concordant \o <<Head(Concordant)>>,
     Repeat(Concordant, 10),
     Repeat(Concordant, 9) \o <<Head(Concordant)>>,
     Repeat(Discordant, 10),
     Repeat(SameSpeed, 10),
     Repeat(Concordant, 7) \o Repeat(Discordant, 3),
     Repeat(Concordant, 8) \o Repeat(Discordant, 2),
     Repeat(Tight, 30) \o Repeat(Wide, 5),
     Repeat(Tight, 30) \o Repeat(Wide, 4) \o <<Head(Wide)>>,
     Repeat(Tight, 35),
     Repeat(Tight, 30) \o Repeat(Wider, 5),
     Repeat(Tight, 30) \o Repeat(NoSide, 5),
     Repeat(Concordant, 10) \o Repeat(Tight, 20) \o Repeat(Wide, 5)}

DrillLog(constraintKey, drillName, perceivedOutcome) ==
    [constraintKey |-> constraintKey, drillName |-> drillName,
     perceivedOutcome |-> perceivedOutcome, completedAt |-> 0]

DrillLogPool ==
    {DrillLog(Some("direction_consistency"), "gate", Some(3)),
     DrillLog(Some("direction_consistency"), "stick", Some(5)),
     DrillLog(Some("direction_consistency"), "mirror", NULL),
     DrillLog(Some("direction_consistency"), "rail", Some(3))}

(* the lists of at most MaxDrillLogs logs, no log twice *)
DrillLists ==
    {logs \in SeqsUpTo(DrillLogPool, MaxDrillLogs) :
        \A i, j \in 1..Len(logs) : logs[i] = logs[j] => i = j}

(* clubs 10 yds apart (healthy), 20 yds apart (a cliff) and level (an      *)
(* overlap), the most played one with or without an offline std dev        *)
RuleStatsPool ==
    {MkStats(1, Some(1000), 0, NULL, NULL),
     MkStats(8, Some(1100), 170, Some(130), Some(150)),
     MkStats(40, Some(1300), 60, Some(52), Some(400)),
     MkStats(40, Some(1300), 500, Some(400), NULL)}

RuleSummaries ==
    {MkSummary(stats, NULL) : stats \in SeqsUpTo(RuleStatsPool, 3)}

InitRules ==
    /\ IdleRegister
    /\ pc = "session"
    /\ sessionSummary \in RuleSummaries
    /\ gappingLadder = buildGappingLadder(sessionSummary)
    /\ insightShots \in ShotLists
    /\ drillMemory \in DrillLists
    /\ ruleInsights = NULL
    /\ planArgs = NULL /\ coachV2Plan = NULL /\ trendArgs = NULL /\ trendDeltas = NULL
    /\ IdleQuantile /\ IdleGap /\ IdleShots /\ IdleNumeric

CallBuildRuleInsights ==
    /\ pc = "session"
    /\ ruleInsights' = buildRuleInsights(insightShots, sessionSummary, gappingLadder, drillMemory)
    /\ pc' = "insights"
    /\ UNCHANGED <<qVars, gapVars, shotVars, coachVars, insightShots, drillMemory, numVars, registerVars>>

NextRules == CallBuildRuleInsights

SpecRules == InitRules /\ [][NextRules]_vars

-----------------------------------------------------------------------------
(* summarizeSession (r10.ts 166-171, 188-204, 223-262, 516-548).  Values   *)
(* are in tenths; the model's roundings are the code's on values whose     *)
(* means, variances and interpolations fall on no tie of Math.round.       *)

(* avg: Math.round((total / numbers.length) * 10) / 10 *)
avg(values) ==
    IF toNumericArray(values) = <<>> THEN NULL
    ELSE Some(RoundDiv(SumFrom(toNumericArray(values), 1), Len(toNumericArray(values))))

(* Math.round(Math.sqrt(num / den)): the least r with                      *)
(* num / den < (r + 1/2)^2                                                 *)
RECURSIVE RoundedRootFrom(_, _, _)
RoundedRootFrom(r, num, den) ==
    IF 4 * num < (2 * r + 1) * (2 * r + 1) * den THEN r
    ELSE RoundedRootFrom(r + 1, num, den)

(* a std dev that a single measured value already yields *)
roundedStdDevFromOneValue(values) ==
    IF Len(toNumericArray(values)) < 1 THEN NULL
    ELSE IF Len(toNumericArray(values)) = 1 THEN Some(0)
    ELSE Some(RoundedRootFrom(0, VarianceOf(Centered(toNumericArray(values))).num,
                              VarianceOf(Centered(toNumericArray(values))).den))

(* stdDev of r10.ts (188-197): the sample std dev rounded to a tenth, null *)
(* under two measured values                                               *)
roundedStdDev(values) ==
    IF Len(toNumericArray(values)) < 2 THEN NULL
    ELSE Some(RoundedRootFrom(0, VarianceOf(Centered(toNumericArray(values))).num,
                              VarianceOf(Centered(toNumericArray(values))).den))

LeadingDigits(str) ==
    SubSeq(str, 1, Cardinality({d \in 1..Len(str) : \A i \in 1..d : str[i] \in Digits}))

(* getClubSortKey: { group, rank, label } *)
getClubSortKey(clubType) ==
    LET normalized == toLowerCase(trim(clubType))
    IN  IF \E i \in 1..Len(wedgeOrder) : wedgeOrder[i] = normalized
        THEN [group |-> 0,
              rank |-> (CHOOSE i \in 1..Len(wedgeOrder) : wedgeOrder[i] = normalized) - 1,
              label |-> normalized]
        ELSE IF MatchesNumbered(normalized, StrIron)
        THEN [group |-> 1, rank |-> 10 - DigitsValue(LeadingDigits(normalized)),
              label |-> normalized]
        ELSE IF MatchesNumbered(normalized, StrHybrid)
        THEN [group |-> 2, rank |-> DigitsValue(LeadingDigits(normalized)),
              label |-> normalized]
        ELSE IF MatchesNumbered(normalized, StrWood)
        THEN [group |-> 3, rank |-> DigitsValue(LeadingDigits(normalized)),
              label |-> normalized]
        ELSE IF normalized = StrDriver
        THEN [group |-> 4, rank |-> 0, label |-> normalized]
        ELSE [group |-> 5, rank |-> 999, label |-> normalized]

(* String.prototype.localeCompare on labels of blanks, digits and          *)
(* lower-case letters: blank before digits before letters                  *)
CollationOrder ==
    <<" ", "0", "1", "2", "3", "4", "5", "6", "7", "8", "9",
      "a", "b", "c", "d", "e", "f", "g", "h", "i", "j", "k", "l", "m",
      "n", "o", "p", "q", "r", "s", "t", "u", "v", "w", "x", "y", "z">>

CollationRank(c) ==
    IF \E i \in 1..Len(CollationOrder) : CollationOrder[i] = c
    THEN CHOOSE i \in 1..Len(CollationOrder) : CollationOrder[i] = c
    ELSE 0

RECURSIVE localeCompare(_, _)
localeCompare(a, b) ==
    IF a = <<>> /\ b = <<>> THEN 0
    ELSE IF a = <<>> THEN -1
    ELSE IF b = <<>> THEN 1
    ELSE IF CollationRank(Head(a)) < CollationRank(Head(b)) THEN -1
    ELSE IF CollationRank(Head(a)) > CollationRank(Head(b)) THEN 1
    ELSE localeCompare(Tail(a), Tail(b))

compareClubTypeOrder(a, b) ==
    IF getClubSortKey(a).group # getClubSortKey(b).group
    THEN getClubSortKey(a).group - getClubSortKey(b).group
    ELSE IF getClubSortKey(a).rank # getClubSortKey(b).rank
    THEN getClubSortKey(a).rank - getClubSortKey(b).rank
    ELSE localeCompare(getClubSortKey(a).label, getClubSortKey(b).label)

(* .sort((a, b) => compareClubTypeOrder(a.name, b.name)): stable *)
RECURSIVE InsertByClubTypeOrder(_, _)
InsertByClubTypeOrder(club, sorted) ==
    IF sorted = <<>> THEN <<club>>
    ELSE IF compareClubTypeOrder(club.name, Head(sorted).name) < 0
    THEN <<club>> \o sorted
    ELSE <<Head(sorted)>> \o InsertByClubTypeOrder(club, Tail(sorted))

RECURSIVE SortByClubTypeOrderFrom(_, _)
SortByClubTypeOrderFrom(clubs, acc) ==
    IF clubs = <<>> THEN acc
    ELSE SortByClubTypeOrderFrom(Tail(clubs), InsertByClubTypeOrder(Head(clubs), acc))

(* the keys of the Map `grouped`, in insertion order *)
RECURSIVE GroupedKeysFrom(_, _)
GroupedKeysFrom(shotList, acc) ==
    IF shotList = <<>> THEN acc
    ELSE GroupedKeysFrom(Tail(shotList),
             IF \E i \in 1..Len(acc) : acc[i] = GroupKey(Head(shotList)) THEN acc
             ELSE Append(acc, GroupKey(Head(shotList))))

(* list.map((shot) => shot[field]) *)
RECURSIVE FieldValues(_, _)
FieldValues(list, field) ==
    IF list = <<>> THEN <<>> ELSE <<Head(list)[field]>> \o FieldValues(Tail(list), field)

(* Boolean(v) of a string | null *)
TruthyText(text) == ~IsNull(text) /\ Val(text) # <<>>

(* Array.from(new Set(list.map(field).filter(Boolean))) *)
RECURSIVE UniqueLabelsFrom(_, _, _)
UniqueLabelsFrom(list, field, acc) ==
    IF list = <<>> THEN acc
    ELSE UniqueLabelsFrom(Tail(list), field,
             IF ~TruthyText(Head(list)[field])
                \/ (\E i \in 1..Len(acc) : acc[i] = Val(Head(list)[field]))
             THEN acc ELSE Append(acc, Val(Head(list)[field])))

(* list.find((shot) => shot.clubName)?.displayClub ?? name *)
RECURSIVE displayNameOf(_, _)
displayNameOf(list, name) ==
    IF list = <<>> THEN name
    ELSE IF TruthyText(Head(list).clubName) THEN Head(list).displayClub
    ELSE displayNameOf(Tail(list), name)

(* the entry of one [name, list] pair of the Map *)
clubSummary(name, list) ==
    [name |-> name,
     displayName |-> displayNameOf(list, name),
     shotLabels |-> UniqueLabelsFrom(list, "clubName", <<>>),
     modelLabels |-> UniqueLabelsFrom(list, "clubModel", <<>>),
     shots |-> Len(list),
     avgCarryYds |-> avg(FieldValues(list, "carryYds")),
     medianCarryYds |-> roundedQuantile(FieldValues(list, "carryYds"), 10),
     p10CarryYds |-> roundedQuantile(FieldValues(list, "carryYds"), 2),
     p90CarryYds |-> roundedQuantile(FieldValues(list, "carryYds"), 18),
     carryStdDevYds |-> roundedStdDev(FieldValues(list, "carryYds")),
     offlineStdDevYds |-> roundedStdDev(FieldValues(list, "sideYds"))]

RECURSIVE clubSummaries(_, _)
clubSummaries(shotList, keys) ==
    IF keys = <<>> THEN <<>>
    ELSE <<clubSummary(Head(keys), ClubShots(shotList, Head(keys)))>>
         \o clubSummaries(shotList, Tail(keys))

summarizeSession(shotList) ==
    [shots |-> Len(shotList),
     avgCarryYds |-> avg(FieldValues(shotList, "carryYds")),
     avgBallSpeedMph |-> avg(FieldValues(shotList, "ballSpeedMph")),
     avgLaunchAngleDeg |-> avg(FieldValues(shotList, "launchAngleDeg")),
     avgSpinRpm |-> avg(FieldValues(shotList, "spinRpm")),
     clubs |-> SortByClubTypeOrderFrom(
                   clubSummaries(shotList, GroupedKeysFrom(shotList, <<>>)), <<>>)]

-----------------------------------------------------------------------------
(* Specification SpecSummary: summarizeSession applied to every list of at *)
(* most MaxSummaryShots shots of the pool below: four club types and the   *)
(* empty club type a stored session may hold, carries and sides of whole   *)
(* even yards or unmeasured, one shot with a nickname.                     *)

SummaryShotPool ==
    {MkShot(Club7Iron, NULL, NULL, Some(1000), NULL, Some(1480), NULL, Some(-20), NULL, <<>>),
     MkShot(Club7Iron, Some(<<"G">>), NULL, NULL, NULL, Some(1520), NULL, Some(40), NULL, <<>>),
     MkShot(Club7Iron, NULL, NULL, NULL, NULL, NULL, NULL, NULL, NULL, <<>>),
     MkShot(ClubDriver, NULL, NULL, Some(1200), NULL, Some(2400), NULL, NULL, NULL, <<>>),
     MkShot(ClubDriver, NULL, NULL, NULL, NULL, Some(2460), NULL, Some(60), NULL, <<>>),
     MkShot(StrUnknown, NULL, NULL, NULL, NULL, Some(1000), NULL, NULL, NULL, <<>>),
     MkShot(<<>>, NULL, NULL, NULL, NULL, Some(1040), NULL, Some(0), NULL, <<>>),
     MkShot(ClubPitchingWedge, NULL, NULL, NULL, NULL, Some(900), NULL, NULL, NULL, <<>>)}

InitSummary ==
    /\ IdleRegister
    /\ pc = "recorded"
    /\ shots \in SeqsUpTo(SummaryShotPool, MaxSummaryShots)
    /\ csvRows = NULL /\ storedShots = NULL
    /\ IdleQuantile /\ IdleGap /\ IdleCoach /\ IdleRules /\ IdleNumeric

CallSummarizeSession ==
    /\ pc = "recorded"
    /\ sessionSummary' = summarizeSession(shots)
    /\ pc' = "summarised"
    /\ UNCHANGED <<qVars, gapVars, shotVars, gappingLadder, planArgs, coachV2Plan, trendArgs, trendDeltas, ruleVars, numVars, registerVars>>

NextSummary == CallSummarizeSession

SpecSummary == InitSummary /\ [][NextSummary]_vars

-----------------------------------------------------------------------------
(* The registration route (src/app/api/auth/register/route.ts).  POST and  *)
(* withSqliteRetry are async functions: each action below runs the code    *)
(* from one await to the next.  The database is the environment: what      *)
(* prisma.user.findUnique and prisma.user.create answer or throw is chosen *)
(* at each call.                                                           *)

RetryAttempts == 5   \* for (let attempt = 1; attempt <= 5; attempt += 1)

StrDatabaseIsLocked == <<"d", "a", "t", "a", "b", "a", "s", "e", " ", "i", "s", " ", "l", "o", "c", "k", "e", "d">>

(* an error value: `known` is `error instanceof                            *)
(* Prisma.PrismaClientKnownRequestError`, `message` is error.meta?.message *)
(* when it is a string                                                     *)
MkError(known, code, message) == [known |-> known, code |-> code, message |-> message]

DatabaseErrors ==
    {MkError(TRUE, "P2010", Some(StrDatabaseIsLocked)),
     MkError(TRUE, "P2010", Some(<<"S", "Q", "L", "i", "t", "e", ":", " ", "D", "a", "t", "a", "b", "a", "s", "e", " ", "i", "s", " ", "L", "O", "C", "K", "E", "D">>)),
     MkError(TRUE, "P2010", Some(<<"d", "a", "t", "a", "b", "a", "s", "e", " ", "i", "s", " ", "c", "l", "o", "s", "e", "d">>)),
     MkError(TRUE, "P2010", NULL),
     MkError(TRUE, "P2021", NULL),
     MkError(TRUE, "P2002", NULL),
     MkError(TRUE, "P1001", Some(StrDatabaseIsLocked)),
     MkError(FALSE, "P2010", Some(StrDatabaseIsLocked))}

(* a locked test that looks at the error code alone *)
isSqliteLockedErrorByCode(error) ==
    /\ error.known
    /\ error.code = "P2010"

isSqliteLockedError(error) ==
    /\ error.known
    /\ error.code = "P2010"
    /\ ~IsNull(error.message)
    /\ includes(toLowerCase(Val(error.message)), StrDatabaseIsLocked)

MkResponse(status, error) == [status |-> status, error |-> error]

(* the catch block of POST (lines 84-116) *)
errorResponse(error) ==
    IF error.known /\ error.code = "P2021"
    THEN MkResponse(503, "Database is not initialized yet. Run Prisma migration and try again.")
    ELSE IF error.known /\ error.code = "P2002"
    THEN MkResponse(409, "An account with this email already exists.")
    ELSE IF error.known /\ isSqliteLockedError(error)
    THEN MkResponse(503, "Database is busy. Please retry in a moment.")
    ELSE MkResponse(500, "Could not create account.")

(* one run of `operation`: how it ended, and the error it threw *)
MkRun(outcome, error) == [outcome |-> outcome, error |-> error]

(* the run of `operation` in progress ends *)
Settled(outcome, error) ==
    [operationRuns EXCEPT ![Len(operationRuns)] = MkRun(outcome, error)]

InitRegister ==
    /\ pc = "post"
    /\ registerPayload \in {"malformed", "invalid", "valid"}
    /\ attempt = NULL /\ lastError = NULL /\ thrown = NULL
    /\ operationRuns = <<>>
    /\ response = NULL
    /\ IdleQuantile /\ IdleGap /\ IdleShots /\ IdleCoach /\ IdleRules /\ IdleNumeric

(* POST, lines 45-58: request.json(), safeParse, the 400 answer, the hash; *)
(* then withSqliteRetry enters its loop                                    *)
POSTParse ==
    /\ pc = "post"
    /\ IF registerPayload # "valid"
       THEN /\ response' = Some(MkResponse(400, "Invalid registration payload."))
            /\ pc' = "responded"
            /\ UNCHANGED attempt
       ELSE /\ attempt' = Some(1)
            /\ pc' = "operation"
            /\ UNCHANGED response
    /\ UNCHANGED <<registerPayload, lastError, thrown, operationRuns>>
    /\ UNCHANGED <<qVars, gapVars, shotVars, coachVars, ruleVars, numVars>>

(* `await operation()` of the loop: createAccount runs up to the answer of *)
(* prisma.user.findUnique                                                  *)
FindUnique ==
    /\ pc = "operation"
    /\ Val(attempt) <= RetryAttempts
    /\ \/ /\ response' = Some(MkResponse(409, "An account with this email already exists."))
          /\ operationRuns' = Append(operationRuns, MkRun("exists", NULL))
          /\ pc' = "responded"
          /\ UNCHANGED thrown
       \/ /\ operationRuns' = Append(operationRuns, MkRun("pending", NULL))
          /\ pc' = "create"
          /\ UNCHANGED <<response, thrown>>
       \/ \E error \in DatabaseErrors :
              /\ thrown' = Some(error)
              /\ operationRuns' = Append(operationRuns, MkRun("threw", Some(error)))
              /\ pc' = "caught"
              /\ UNCHANGED response
    /\ UNCHANGED <<registerPayload, attempt, lastError>>
    /\ UNCHANGED <<qVars, gapVars, shotVars, coachVars, ruleVars, numVars>>

(* createAccount from the answer of findUnique to that of                  *)
(* prisma.user.create                                                      *)
Create ==
    /\ pc = "create"
    /\ \/ /\ response' = Some(MkResponse(201, "ok"))
          /\ operationRuns' = Settled("created", NULL)
          /\ pc' = "responded"
          /\ UNCHANGED thrown
       \/ \E error \in DatabaseErrors :
              /\ thrown' = Some(error)
              /\ operationRuns' = Settled("threw", Some(error))
              /\ pc' = "caught"
              /\ UNCHANGED response
    /\ UNCHANGED <<registerPayload, attempt, lastError>>
    /\ UNCHANGED <<qVars, gapVars, shotVars, coachVars, ruleVars, numVars>>

(* the catch of withSqliteRetry up to `await sleep(attempt * 120)` *)
Catch ==
    /\ pc = "caught"
    /\ IF ~isSqliteLockedError(Val(thrown))
       THEN /\ pc' = "failed"
            /\ UNCHANGED <<lastError, thrown>>
       ELSE /\ lastError' = thrown
            /\ thrown' = NULL
            /\ pc' = "sleep"
    /\ UNCHANGED <<registerPayload, attempt, operationRuns, response>>
    /\ UNCHANGED <<qVars, gapVars, shotVars, coachVars, ruleVars, numVars>>

(* the timer fires: attempt += 1, the loop test, `throw lastError` *)
Sleep ==
    /\ pc = "sleep"
    /\ attempt' = Some(Val(attempt) + 1)
    /\ IF Val(attempt) + 1 <= RetryAttempts
       THEN /\ pc' = "operation"
            /\ UNCHANGED thrown
       ELSE /\ thrown' = lastError
            /\ pc' = "failed"
    /\ UNCHANGED <<registerPayload, lastError, operationRuns, response>>
    /\ UNCHANGED <<qVars, gapVars, shotVars, coachVars, ruleVars, numVars>>

(* the catch block of POST *)
POSTCatch ==
    /\ pc = "failed"
    /\ response' = Some(errorResponse(Val(thrown)))
    /\ pc' = "responded"
    /\ UNCHANGED <<registerPayload, attempt, lastError, thrown, operationRuns>>
    /\ UNCHANGED <<qVars, gapVars, shotVars, coachVars, ruleVars, numVars>>

NextRegister == POSTParse \/ FindUnique \/ Create \/ Catch \/ Sleep \/ POSTCatch

SpecRegister == InitRegister /\ [][NextRegister]_vars

(* every await of the route settles: the database answers or throws, the   *)
(* timer of sleep fires                                                    *)
SpecRegisterFair == SpecRegister /\ WF_vars(NextRegister)

-----------------------------------------------------------------------------
(* Specification SpecNumeric: numeric applied to undefined and to every    *)
(* cell of at most MaxCellLen digits and separators, every shorter cell of *)
(* letters, signs and blanks, and the cells the documentation names.       *)

NumberCells == SeqsUpTo({"1", "5", ",", "."}, MaxCellLen)
WordCells == SeqsUpTo({"a", "-", "1", ".", " "}, MaxCellLen - 1)
NamedCells ==
    {<<"N", "/", "A">>,
     <<"a", "b", "c">>,
     <<"1", ".", "2", ".", "3">>,
     <<"1", ",", "2", "3">>,
     <<"1", ",", "2", "3", "4", ".", "5">>,
     <<"1", ".", "2", "3", "4", ",", "5">>,
     <<"1", ",", "2", "3", "4", ",", "5", "6", "7", ".", "8">>,
     <<"1", ".", "2", "3", "4", ".", "5", "6", "7", ",", "8">>,
     <<"1", ".", "2", "3", "4", ",", "5", "6", "7", ",", "8">>,
     <<"1", "5", "0", ".", "5", " ", "y", "d", "s">>}

Cells == NumberCells \cup WordCells \cup NamedCells

InitNumeric ==
    /\ IdleRegister
    /\ pc = "cell"
    /\ numCell \in {NULL} \cup {Some(cell) : cell \in Cells}
    /\ numRet = NULL
    /\ IdleQuantile /\ IdleGap /\ IdleShots /\ IdleCoach /\ IdleRules

CallNumeric ==
    /\ pc = "cell"
    /\ numRet' = numericDecimal(numCell)
    /\ pc' = "number"
    /\ UNCHANGED <<qVars, gapVars, shotVars, coachVars, ruleVars, numCell, registerVars>>

NextNumeric == CallNumeric

SpecNumeric == InitNumeric /\ [][NextNumeric]_vars

-----------------------------------------------------------------------------
(* Order statistics stated without sorting: the k-th smallest (1-based) of *)
(* a list is the value v with fewer than k elements below it and at least  *)
(* k elements not above it.                                                *)

Range(s) == {s[i] : i \in 1..Len(s)}
CountBelow(s, v) == Cardinality({i \in 1..Len(s) : s[i] < v})
CountUpTo(s, v) == Cardinality({i \in 1..Len(s) : s[i] <= v})
KthSmallest(s, k) ==
    CHOOSE v \in Range(s) : CountBelow(s, v) < k /\ k <= CountUpTo(s, v)
MinOf(s) == CHOOSE v \in Range(s) : \A w \in Range(s) : v <= w
MaxOf(s) == CHOOSE v \in Range(s) : \A w \in Range(s) : v >= w

Rotate(s) == IF Len(s) < 2 THEN s ELSE Tail(s) \o <<Head(s)>>
SwapFirstTwo(s) ==
    IF Len(s) < 2 THEN s ELSE <<s[2], s[1]>> \o SubSeq(s, 3, Len(s))

(* The interpolation the quantile method prescribes, in twentieths *)
InterpolatedAt(s, q20) ==
    LET pos20 == (Len(s) - 1) * q20
        lo == pos20 \div 20
        frac20 == pos20 % 20
    IN  IF frac20 = 0 THEN 20 * KthSmallest(s, lo + 1)
        ELSE (20 - frac20) * KthSmallest(s, lo + 1)
             + frac20 * KthSmallest(s, lo + 2)

-----------------------------------------------------------------------------
(* C3: for every non-empty list and every q in {0.1, 0.25, 0.5, 0.75, 0.9} *)
(* quantile returns the linear interpolation at position (n-1)*q of the    *)
(* ascending list (the exact element at an integer position); the result   *)
(* is the same for the list rotated or with its first two elements swapped *)
(* (hence for every reordering) and lies between the minimum and the       *)
(* maximum; quantile(0.5) of [100,110,120,130] is 115, of [10] is 10, and  *)
(* the rounded median of carries [150,152,300,148] is 151.0.               *)
C3_QuantileInterpolates ==
    (pc = "quantile_done" /\ Len(qValues) > 0) =>
        /\ ~IsNull(qRet.quantile)
        /\ Val(qRet.quantile) = InterpolatedAt(qValues, Val(qArg))
        /\ quantile(Rotate(qValues), Val(qArg)) = qRet.quantile
        /\ quantile(SwapFirstTwo(qValues), Val(qArg)) = qRet.quantile
        /\ 20 * MinOf(qValues) <= Val(qRet.quantile)
        /\ Val(qRet.quantile) <= 20 * MaxOf(qValues)
        /\ (qValues = <<1000, 1100, 1200, 1300>> /\ qArg = Some(10))
              => qRet.quantile = Some(20 * 1150)
        /\ (qValues = <<100>> /\ qArg = Some(10)) => qRet.quantile = Some(20 * 100)
        /\ (qValues = <<1500, 1520, 3000, 1480>> /\ qArg = Some(10))
              => qRet.rounded = Some(1510)

C3_Witness ==
    /\ pc = "quantile_done"
    /\ qValues = <<1500, 1520, 3000, 1480>>
    /\ qArg = Some(15)
    /\ qRet.quantile = Some(20 * 1890)

-----------------------------------------------------------------------------
(* C4: overlap when g < 5 whatever the family; otherwise wedge/iron/other: *)
(* compressed when g < 8, healthy when 8 <= g <= 18, cliff when g > 18;    *)
(* hybrid/wood/driver: compressed when g < 12, healthy when 12 <= g <= 20, *)
(* cliff when g > 20.  Iron 5.0 is compressed, iron 18.0 is healthy,       *)
(* hybrid 25.0 is cliff.                                                   *)
LongFamilies == {"hybrid", "wood", "driver"}
CompressedBelow(family) == IF family \in LongFamilies THEN 120 ELSE 80
CliffAbove(family) == IF family \in LongFamilies THEN 200 ELSE 180

C4_ClassifyGapTable ==
    pc = "gap_done" =>
        /\ (gapRet = Some("overlap")) <=> (gapYds < 50)
        /\ (gapRet = Some("compressed")) <=>
               (50 <= gapYds /\ gapYds < CompressedBelow(gapFamily))
        /\ (gapRet = Some("healthy")) <=>
               (CompressedBelow(gapFamily) <= gapYds /\ gapYds <= CliffAbove(gapFamily))
        /\ (gapRet = Some("cliff")) <=> (gapYds > CliffAbove(gapFamily))
        /\ (gapFamily = "iron" /\ gapYds = 50) => gapRet = Some("compressed")
        /\ (gapFamily = "iron" /\ gapYds = 180) => gapRet = Some("healthy")
        /\ (gapFamily = "hybrid" /\ gapYds = 250) => gapRet = Some("cliff")

C4_Witness ==
    /\ pc = "gap_done"
    /\ gapFamily = "hybrid"
    /\ gapYds = 250
    /\ gapRet = Some("cliff")

-----------------------------------------------------------------------------
(* C1: mapRowsToShots emits a shot for a row if and only if the row's club *)
(* identity is not "Unknown" or at least one of the six metrics (ball      *)
(* speed, launch angle, carry, total, side, spin) has a value; so no       *)
(* retained shot has both an unknown club and all six metrics absent, and  *)
(* the retained shots keep the relative order of their rows.               *)
SixMetrics ==
    {"ballSpeedMph", "launchAngleDeg", "carryYds", "totalYds", "sideYds", "spinRpm"}

(* the club identity and the metrics of a row are those of the shot built  *)
(* from it                                                                 *)
KnownClubOrMetric(shot) ==
    \/ shot.clubType # StrUnknown
    \/ \E m \in SixMetrics : ~IsNull(shot[m])

RowIsRetained(row) == KnownClubOrMetric(shotOfRow(row))

RetainedRowIndexes(rowList) == {i \in 1..Len(rowList) : RowIsRetained(rowList[i])}

(* the k-th smallest member of a set of indexes *)
KthIndex(indexes, k) ==
    CHOOSE i \in indexes : Cardinality({j \in indexes : j < i}) = k - 1

RowsMapped == pc = "mapped"

C1_RetainedIffKnownClubOrMetric ==
    RowsMapped =>
        LET retained == RetainedRowIndexes(csvRows)
        IN  /\ Len(shots) = Cardinality(retained)
            /\ \A k \in 1..Len(shots) :
                  /\ shots[k].raw = csvRows[KthIndex(retained, k)]
                  /\ KnownClubOrMetric(shots[k])

C1_Witness ==
    /\ RowsMapped
    /\ Len(csvRows) = 3
    /\ RetainedRowIndexes(csvRows) = {1, 3}
    /\ Len(shots) = 2
    /\ shots[1].clubType = StrUnknown
    /\ shots[1].carryYds = Some(1505)
    /\ shots[2].clubType = Club7Iron
    /\ \A m \in SixMetrics : IsNull(shots[2][m])

-----------------------------------------------------------------------------
(* C2: after outlier tagging a shot is flagged (isOutlier, with a          *)
(* "carry_outlier" quality flag) if and only if its clubType group holds   *)
(* at least 4 measured carries and its own carry is measured and lies      *)
(* strictly below Q1 - 1.5*IQR or strictly above Q3 + 1.5*IQR, Q1 and Q3   *)
(* being the interpolated quartiles of the group's measured carries; so a  *)
(* group with fewer than 4 measured carries has no flagged shot, and       *)
(* carries [150, 152, 300, 148] of one club flag only the 300 shot.        *)
MeasuredCarriesOfClub(list, club) ==
    LET kept == SelectIdx(list, {i \in 1..Len(list) :
                                    list[i].clubType = club /\ ~IsNull(list[i].carryYds)})
    IN  [i \in 1..Len(kept) |-> Val(kept[i].carryYds)]

OutsideFence(carry, group) ==
    LET q1 == InterpolatedAt(group, 5)
        q3 == InterpolatedAt(group, 15)
    IN  \/ 40 * carry < 2 * q1 - 3 * (q3 - q1)
        \/ 40 * carry > 2 * q3 + 3 * (q3 - q1)

ShouldBeFlagged(list, i) ==
    LET group == MeasuredCarriesOfClub(list, list[i].clubType)
    IN  /\ Len(group) >= 4
        /\ ~IsNull(list[i].carryYds)
        /\ OutsideFence(Val(list[i].carryYds), group)

HasFlag(shot, flag) == \E k \in 1..Len(shot.qualityFlags) : shot.qualityFlags[k] = flag

C2_OutlierIffOutsideFence ==
    pc = "tagged" =>
        /\ \A i \in 1..Len(shots) :
              /\ shots[i].isOutlier <=> ShouldBeFlagged(shots, i)
              /\ HasFlag(shots[i], "carry_outlier") <=> ShouldBeFlagged(shots, i)
        /\ ([i \in 1..Len(shots) |-> <<shots[i].clubType, shots[i].carryYds>>]
               = << <<Club7Iron, Some(1500)>>, <<Club7Iron, Some(1520)>>,
                    <<Club7Iron, Some(3000)>>, <<Club7Iron, Some(1480)>> >>)
           => [i \in 1..Len(shots) |-> shots[i].isOutlier] = <<FALSE, FALSE, TRUE, FALSE>>

C2_Witness ==
    /\ pc = "tagged"
    /\ Len(shots) = 5
    /\ [i \in 1..Len(shots) |-> shots[i].isOutlier] = <<FALSE, FALSE, TRUE, FALSE, FALSE>>
    /\ [i \in 1..Len(shots) |-> shots[i].carryYds]
          = <<Some(1500), Some(1520), Some(3000), Some(1480), Some(2400)>>
    /\ HasFlag(shots[3], "carry_outlier")

-----------------------------------------------------------------------------
(* C5: the rows of buildGappingLadder are exactly the clubs whose median   *)
(* carry is not null, one row per such club and none for a club lacking a  *)
(* median, and the rows are in non-increasing median-carry order, clubs of *)
(* equal median staying in the order the summary lists them.               *)
ClubsWithMedian(summary) ==
    {i \in 1..Len(summary.clubs) : ~IsNull(summary.clubs[i].medianCarryYds)}

IndexOfClub(summary, name) ==
    CHOOSE i \in 1..Len(summary.clubs) : summary.clubs[i].name = name

RowsAreClubsWithMedian(summary, rows) ==
    /\ Len(rows) = Cardinality(ClubsWithMedian(summary))
    /\ \A i \in ClubsWithMedian(summary) :
          \E j \in 1..Len(rows) :
              /\ rows[j].club = summary.clubs[i].name
              /\ rows[j].medianCarryYds = Val(summary.clubs[i].medianCarryYds)
    /\ \A j \in 1..Len(rows) :
          \E i \in ClubsWithMedian(summary) : rows[j].club = summary.clubs[i].name

LadderBuilt == pc \in {"ladder", "plan", "replanned", "trend"}

C5_LadderRowsNonIncreasing ==
    LadderBuilt =>
        /\ RowsAreClubsWithMedian(sessionSummary, gappingLadder.rows)
        /\ \A j \in 1..(Len(gappingLadder.rows) - 1) :
              \/ gappingLadder.rows[j].medianCarryYds > gappingLadder.rows[j + 1].medianCarryYds
              \/ /\ gappingLadder.rows[j].medianCarryYds
                        = gappingLadder.rows[j + 1].medianCarryYds
                 /\ IndexOfClub(sessionSummary, gappingLadder.rows[j].club)
                        < IndexOfClub(sessionSummary, gappingLadder.rows[j + 1].club)

(* C5 as stated: the rows are exactly the clubs with a median and each     *)
(* row's medianCarryYds is strictly greater than that of the row after it. *)
C5_LadderRowsStrictlyDescending ==
    LadderBuilt =>
        /\ RowsAreClubsWithMedian(sessionSummary, gappingLadder.rows)
        /\ \A j \in 1..(Len(gappingLadder.rows) - 1) :
              gappingLadder.rows[j].medianCarryYds > gappingLadder.rows[j + 1].medianCarryYds

C5_Witness ==
    /\ pc = "ladder"
    /\ Len(sessionSummary.clubs) = 4
    /\ Len(gappingLadder.rows) = 3
    /\ gappingLadder.rows[1].medianCarryYds = gappingLadder.rows[2].medianCarryYds
    /\ gappingLadder.rows[2].medianCarryYds > gappingLadder.rows[3].medianCarryYds
    /\ IndexOfClub(sessionSummary, gappingLadder.rows[3].club) = 1

-----------------------------------------------------------------------------
(* C6: buildCoachV2Plan returns null if and only if the summary has zero   *)
(* clubs; for a summary with at least one club it returns a plan whose     *)
(* constraintScores has exactly four entries, one for each of              *)
(* direction_consistency, distance_control, bag_gapping, strike_quality.   *)
ConstraintKeys ==
    {"direction_consistency", "distance_control", "bag_gapping", "strike_quality"}

C6_NullPlanIffNoClubs ==
    pc = "plan" =>
        /\ IsNull(coachV2Plan) <=> Len(sessionSummary.clubs) = 0
        /\ Len(sessionSummary.clubs) > 0 =>
              /\ Len(Val(coachV2Plan).constraintScores) = 4
              /\ \A k \in ConstraintKeys :
                    Cardinality({i \in 1..4 : Val(coachV2Plan).constraintScores[i].key = k}) = 1

C6_Witness ==
    /\ pc = "plan"
    /\ Len(sessionSummary.clubs) = 0
    /\ IsNull(coachV2Plan)

-----------------------------------------------------------------------------
(* C7: in every returned plan constraintScores is ordered by               *)
(* non-increasing score, entries of equal score stand in the evaluation    *)
(* order direction, distance, gapping, strike; primaryConstraint is the    *)
(* first entry; secondaryConstraint is the second entry when its score is  *)
(* > 0 and null otherwise; when only bag_gapping has a non-zero score,     *)
(* bag_gapping is primary and the secondary is null.                       *)
EvaluationOrder(key) ==
    CASE key = "direction_consistency" -> 1
      [] key = "distance_control" -> 2
      [] key = "bag_gapping" -> 3
      [] key = "strike_quality" -> 4

OnlyGappingNonZero(scores) ==
    \A i \in 1..Len(scores) : (scores[i].score # 0) <=> (scores[i].key = "bag_gapping")

PlanReturned == pc = "plan" /\ ~IsNull(coachV2Plan)

C7_ScoresSortedStable ==
    PlanReturned =>
        /\ \A i \in 1..3 :
              \/ Val(coachV2Plan).constraintScores[i].score
                     > Val(coachV2Plan).constraintScores[i + 1].score
              \/ /\ Val(coachV2Plan).constraintScores[i].score
                        = Val(coachV2Plan).constraintScores[i + 1].score
                 /\ EvaluationOrder(Val(coachV2Plan).constraintScores[i].key)
                        < EvaluationOrder(Val(coachV2Plan).constraintScores[i + 1].key)
        /\ Val(coachV2Plan).primaryConstraint = Val(coachV2Plan).constraintScores[1]
        /\ Val(coachV2Plan).secondaryConstraint
              = (IF Val(coachV2Plan).constraintScores[2].score > 0
                 THEN Some(Val(coachV2Plan).constraintScores[2]) ELSE NULL)
        /\ OnlyGappingNonZero(Val(coachV2Plan).constraintScores) =>
              /\ Val(coachV2Plan).primaryConstraint.key = "bag_gapping"
              /\ IsNull(Val(coachV2Plan).secondaryConstraint)

C7_Witness ==
    /\ PlanReturned
    /\ OnlyGappingNonZero(Val(coachV2Plan).constraintScores)
    /\ Val(coachV2Plan).primaryConstraint.key = "bag_gapping"
    /\ Val(coachV2Plan).primaryConstraint.score > 0
    /\ IsNull(Val(coachV2Plan).secondaryConstraint)

-----------------------------------------------------------------------------
(* C8: for every plan, confidence.score equals                             *)
(* clamp(round(shots/3),0,40) + clamp(3*clubs,0,25)                        *)
(* + clamp(4*sessionsAnalyzed,0,20) + clamp(4*(number of constraint scores *)
(* whose currentValue is not null),0,15), clamped to [0,100]; the level is *)
(* low below 45, medium from 45 to 74, high from 75; the practice plan     *)
(* lasts 30, 25 or 20 minutes for high, medium or low.                     *)
Within(x, lo, hi) == IF x < lo THEN lo ELSE IF x > hi THEN hi ELSE x

(* the integer nearest to n/3, halves upward *)
NearestThird(n) == CHOOSE r \in 0..n : 6 * r - 3 <= 2 * n /\ 2 * n < 6 * r + 3

ExpectedConfidence(summary, sessionsAnalyzed, scores) ==
    Within(Within(NearestThird(summary.shots), 0, 40)
           + Within(3 * Len(summary.clubs), 0, 25)
           + Within(4 * sessionsAnalyzed, 0, 20)
           + Within(4 * Cardinality({i \in 1..Len(scores) :
                                        ~IsNull(scores[i].currentValue)}), 0, 15),
           0, 100)

C8_ConfidenceFormula ==
    PlanReturned =>
        /\ Val(coachV2Plan).confidence.score
              = ExpectedConfidence(sessionSummary, planArgs.sessionsAnalyzed,
                                   Val(coachV2Plan).constraintScores)
        /\ Val(coachV2Plan).confidence.level
              = (IF Val(coachV2Plan).confidence.score < 45 THEN "low"
                 ELSE IF Val(coachV2Plan).confidence.score < 75 THEN "medium"
                 ELSE "high")
        /\ Val(coachV2Plan).practicePlan.durationMinutes
              = (CASE Val(coachV2Plan).confidence.level = "high" -> 30
                   [] Val(coachV2Plan).confidence.level = "medium" -> 25
                   [] Val(coachV2Plan).confidence.level = "low" -> 20)

C8_Witness ==
    /\ PlanReturned
    /\ Val(coachV2Plan).confidence.score >= 45
    /\ Val(coachV2Plan).confidence.score < 75
    /\ Val(coachV2Plan).confidence.level = "medium"
    /\ Val(coachV2Plan).practicePlan.durationMinutes = 25
    /\ sessionSummary.shots > 120

-----------------------------------------------------------------------------
(* C9: buildTrendDeltas called with no baseline summary gives hasBaseline  *)
(* false, the three metric deltas (average carry, average ball speed, gap  *)
(* alerts) each with direction insufficient and a null delta, a null       *)
(* primaryConstraintDelta, and the summary sentence saying that no         *)
(* baseline exists.                                                        *)
TrendBuilt == pc = "trend"

C9_NoBaselineInsufficient ==
    (TrendBuilt /\ IsNull(trendArgs.baselineSummary)) =>
        /\ trendDeltas.hasBaseline = FALSE
        /\ [i \in 1..Len(trendDeltas.metrics) |-> trendDeltas.metrics[i].key]
              = <<"avg_carry_yds", "avg_ball_speed_mph", "gap_alerts">>
        /\ \A i \in 1..Len(trendDeltas.metrics) :
              /\ trendDeltas.metrics[i].direction = "insufficient"
              /\ IsNull(trendDeltas.metrics[i].delta)
        /\ IsNull(trendDeltas.primaryConstraintDelta)
        /\ trendDeltas.summary = <<"No baseline yet">>

C9_Witness ==
    /\ TrendBuilt
    /\ IsNull(trendArgs.baselineSummary)
    /\ ~IsNull(sessionSummary.avgCarryYds)
    /\ ~IsNull(sessionSummary.avgBallSpeedMph)
    /\ trendDeltas.hasBaseline = FALSE
    /\ trendDeltas.metrics[3].direction = "insufficient"

-----------------------------------------------------------------------------
(* C10: buildTrendDeltas called with a baseline summary identical to the   *)
(* latest summary (the latest ladder built from that summary) gives        *)
(* direction flat to every metric whose value the summary holds and        *)
(* direction insufficient to a metric whose value is null in the summary;  *)
(* the primary-constraint delta, when present, is flat.                    *)
IdenticalBaseline == TrendBuilt /\ trendArgs.baselineSummary = Some(sessionSummary)

C10_IdenticalBaselineFlatWhereMeasured ==
    IdenticalBaseline =>
        /\ \A i \in 1..Len(trendDeltas.metrics) :
              trendDeltas.metrics[i].direction
                 = (IF IsNull(trendDeltas.metrics[i].current) THEN "insufficient" ELSE "flat")
        /\ ~IsNull(trendDeltas.primaryConstraintDelta) =>
              Val(trendDeltas.primaryConstraintDelta).direction = "flat"

(* C10 as stated: with an identical baseline every metric delta has        *)
(* direction flat, and so does the primary-constraint delta when present.  *)
C10_IdenticalBaselineAllFlat ==
    IdenticalBaseline =>
        /\ \A i \in 1..Len(trendDeltas.metrics) : trendDeltas.metrics[i].direction = "flat"
        /\ ~IsNull(trendDeltas.primaryConstraintDelta) =>
              Val(trendDeltas.primaryConstraintDelta).direction = "flat"

C10_Witness ==
    /\ IdenticalBaseline
    /\ ~IsNull(trendDeltas.primaryConstraintDelta)
    /\ Val(trendDeltas.primaryConstraintDelta).direction = "flat"
    /\ Val(trendDeltas.primaryConstraintDelta).currentScore > 0
    /\ \A i \in 1..Len(trendDeltas.metrics) : trendDeltas.metrics[i].direction = "flat"

-----------------------------------------------------------------------------
(* The ids of the rules whose trigger holds for the arguments of the call  *)
(* (part_004 184-188, 200-211, 214-218, 229-230, 246).                     *)

RuleIds ==
    {"speed-carry-linked", "fatigue-dispersion", "top-club-dispersion",
     "gap-alerts-present", "drill-memory"}

IdsOf(insights) == {insights[i].id : i \in 1..Len(insights)}

FiredRules(shotList, summary, ladder, drillLogs) ==
    IdsOf(SpeedCarryInsight(speedCarryPairs(shotList),
                            correlation(SpeedsOf(speedCarryPairs(shotList)),
                                        CarryValuesOf(speedCarryPairs(shotList)))))
    \cup IdsOf(FatigueInsight(shotList))
    \cup IdsOf(TopClubInsight(topClubByShotCount(summary)))
    \cup IdsOf(GapInsight(CountStatus(ladder.rows, {"overlap", "cliff"})))
    \cup IdsOf(DrillInsight(matchingDrills(
                   buildCoachV2Plan(summary, ladder, 1, CHOOSE now \in ClockReads : TRUE),
                   drillLogs)))

InsightsBuilt == pc = "insights"

(* non-empty; the fallback is there exactly when no rule fired, and is     *)
(* then alone with severity info; no id twice                              *)
FallbackIffNoRule(fired, insights) ==
    /\ insights # <<>>
    /\ ("no-major-rule-trigger" \in IdsOf(insights)) <=> (fired = {})
    /\ IdsOf(insights) \ {"no-major-rule-trigger"} = fired
    /\ "no-major-rule-trigger" \in IdsOf(insights) =>
           /\ Len(insights) = 1
           /\ insights[1].severity = "info"
    /\ \A i, j \in 1..Len(insights) : insights[i].id = insights[j].id => i = j

NoShotsOneClubNoAlerts ==
    /\ insightShots = <<>>
    /\ Len(sessionSummary.clubs) = 1
    /\ CountStatus(gappingLadder.rows, {"overlap", "compressed", "cliff"}) = 0

(* the one club stays under the top-club rule: under 8 shots, or no        *)
(* offline std dev, or one of at most 15 yds                               *)
OneClubIsQuiet ==
    \/ sessionSummary.clubs[1].shots < 8
    \/ IsNull(sessionSummary.clubs[1].offlineStdDevYds)
    \/ Val(sessionSummary.clubs[1].offlineStdDevYds) <= 150

(* fewer than two drill logs carry the plan's primary constraint key and a *)
(* rated outcome                                                           *)
FewMatchingDrills ==
    Len(matchingDrills(buildCoachV2Plan(sessionSummary, gappingLadder, 1, 0), drillMemory)) < 2

(* C11: buildRuleInsights returns a non-empty list; 'no-major-rule-trigger' *)
(* (severity info) is in it if and only if none of the five rules fired,   *)
(* and is then its only element; no insight id appears twice.  An empty    *)
(* shot list with a one-club summary and a ladder without alerts yields    *)
(* exactly the fallback insight when that club stays under the top-club    *)
(* rule and fewer than two rated drill logs match the primary constraint.  *)
C11_FallbackIffNoRuleFired ==
    InsightsBuilt =>
        /\ FallbackIffNoRule(FiredRules(insightShots, sessionSummary, gappingLadder, drillMemory),
                             ruleInsights)
        /\ NoShotsOneClubNoAlerts /\ OneClubIsQuiet /\ FewMatchingDrills =>
               ruleInsights = <<FallbackInsight>>

(* C11 as written: every empty shot list with a one-club summary and a     *)
(* ladder without alerts yields exactly the fallback insight.              *)
C11_NoShotsOneClubGivesFallback ==
    InsightsBuilt =>
        /\ FallbackIffNoRule(FiredRules(insightShots, sessionSummary, gappingLadder, drillMemory),
                             ruleInsights)
        /\ NoShotsOneClubNoAlerts => ruleInsights = <<FallbackInsight>>

C11_Witness ==
    /\ InsightsBuilt
    /\ NoShotsOneClubNoAlerts /\ OneClubIsQuiet /\ FewMatchingDrills
    /\ Len(drillMemory) = 2
    /\ ruleInsights = <<FallbackInsight>>

-----------------------------------------------------------------------------
AtMostOneClubWithMedian ==
    LadderBuilt /\ Cardinality(ClubsWithMedian(sessionSummary)) <= 1

(* C12: for a summary in which zero or exactly one club has a median       *)
(* carry, buildGappingLadder returns a ladder of zero or one row           *)
(* respectively whose insights list contains an insight of severity info.  *)
C12_ShortLadderHasInfoInsight ==
    AtMostOneClubWithMedian =>
        /\ Len(gappingLadder.rows) = Cardinality(ClubsWithMedian(sessionSummary))
        /\ \E i \in 1..Len(gappingLadder.insights) :
               gappingLadder.insights[i].severity = "info"

-----------------------------------------------------------------------------
NumberReturned == pc = "number"

HasDigit(str) == \E i \in 1..Len(str) : str[i] \in Digits

(* the string handed to Number: separators settled, then only digits,      *)
(* dots and minus signs kept                                               *)
CleanedForm(cell) ==
    keepNumberChars(normalizeSeparators(without(trim(cell), WhiteSpace)))

(* an optional minus sign, then digits with at most one dot among them and *)
(* at least one digit                                                      *)
IsFiniteLiteral(str) ==
    LET body == IF str # <<>> /\ Head(str) = "-" THEN Tail(str) ELSE str
    IN  /\ \A i \in 1..Len(body) : body[i] \in Digits \cup {"."}
        /\ Cardinality({i \in 1..Len(body) : body[i] = "."}) <= 1
        /\ HasDigit(body)

(* C13: numeric maps every unparsable cell to null: every non-empty cell   *)
(* that contains no digit ("N/A", "abc", "-", "--") and every cell whose   *)
(* cleaned form is not a finite number ("1.2.3") gives null, not a number. *)
C13_UnparsableCellIsNull ==
    NumberReturned /\ ~IsNull(numCell) /\ Val(numCell) # <<>> =>
        /\ ~HasDigit(Val(numCell)) => IsNull(numRet)
        /\ (CleanedForm(Val(numCell)) # <<>> /\ ~IsFiniteLiteral(CleanedForm(Val(numCell)))) =>
               IsNull(numRet)

-----------------------------------------------------------------------------
Separators == {",", "."}

(* a cell made of digits with ',' and '.' separators *)
IsSeparatedDigits(cell) ==
    /\ \A i \in 1..Len(cell) : cell[i] \in Digits \cup Separators
    /\ HasDigit(cell)

CountOf(cell, c) == Cardinality({i \in 1..Len(cell) : cell[i] = c})

(* the number whose digits are the digits of the cell and whose decimal    *)
(* point stands where the cell's k-th character is                         *)
PointAt(cell, k) ==
    Decimal(DigitsValue(without(cell, Separators)),
            Len(without(SubSeq(cell, k + 1, Len(cell)), Separators)))

(* C14: for every cell made of digits with ',' and '.' separators: when    *)
(* both separators occur, the one occurring last is the decimal point and  *)
(* every occurrence of the other separator is removed; when only ','       *)
(* occurs it is the decimal point; empty or whitespace-only cells give no  *)
(* value.                                                                  *)
C14_LastSeparatorIsDecimalPoint ==
    NumberReturned /\ ~IsNull(numCell) =>
        /\ trim(Val(numCell)) = <<>> => IsNull(numRet)
        /\ (IsSeparatedDigits(Val(numCell))
            /\ CountOf(Val(numCell), ",") > 0 /\ CountOf(Val(numCell), ".") > 0) =>
               numRet = Some(PointAt(Val(numCell),
                                     Max2(lastIndexOf(Val(numCell), ","),
                                          lastIndexOf(Val(numCell), "."))))
        /\ (IsSeparatedDigits(Val(numCell))
            /\ CountOf(Val(numCell), ",") = 1 /\ CountOf(Val(numCell), ".") = 0) =>
               numRet = Some(PointAt(Val(numCell), lastIndexOf(Val(numCell), ",")))

-----------------------------------------------------------------------------
(* what the shot of HeaderRow(field, header) holds in `field` when the     *)
(* header names the field                                                  *)
ResolvedValue(field) ==
    IF field = "clubType" THEN CellSevenIron
    ELSE IF field \in TextFields THEN Some(CellGamer)
    ELSE Some(1500)

HeaderResolves(field, header) ==
    csvRows = <<HeaderRow(field, header)>> =>
        /\ Len(shots) = 1
        /\ shots[1][field] = ResolvedValue(field)

(* C15: for each of the 9 canonical fields and each alias listed for it in *)
(* the alias table, a row whose column header is that alias text, in any   *)
(* letter case and with optional surrounding whitespace or a leading       *)
(* byte-order mark, has that column's cell resolved to the canonical field *)
(* by mapRowsToShots.                                                      *)
C15_AliasHeaderResolves ==
    RowsMapped =>
        \A field \in Fields :
            \A a \in 1..Len(keyAliases[field]) :
                \A k \in Spellings :
                    HeaderResolves(field, Spelling(keyAliases[field][a], k))

-----------------------------------------------------------------------------
Retagging == pc = "tagged" /\ pc' = "retagged"

(* C16: re-running the outlier tagger on a shot list it has already tagged *)
(* is idempotent: after the second run every shot has the same isOutlier   *)
(* value and the same qualityFlags list as after the first run, and every  *)
(* shot left unflagged by the first run is still unflagged.                *)
C16_RetaggingIsIdempotent ==
    [][Retagging =>
           /\ Len(shots') = Len(shots)
           /\ \A i \in 1..Len(shots) :
                  /\ shots'[i].isOutlier = shots[i].isOutlier
                  /\ shots'[i].qualityFlags = shots[i].qualityFlags
                  /\ ~shots[i].isOutlier =>
                         ~shots'[i].isOutlier /\ ~HasFlag(shots'[i], "carry_outlier")]_vars

-----------------------------------------------------------------------------
Tagging == pc' \in {"tagged", "retagged"}

OtherFields(shot) == [k \in (DOMAIN shot) \ {"isOutlier", "qualityFlags"} |-> shot[k]]

(* C17: outlier tagging never removes or reorders data: it leaves the      *)
(* length and order of the shot list and every field of every shot other   *)
(* than isOutlier and qualityFlags unchanged, it never changes a shot that *)
(* has no measured carry, and it never resets isOutlier from true to false.*)
C17_TaggingKeepsData ==
    [][Tagging =>
           /\ Len(shots') = Len(shots)
           /\ \A i \in 1..Len(shots) :
                  /\ OtherFields(shots'[i]) = OtherFields(shots[i])
                  /\ IsNull(shots[i].carryYds) => shots'[i] = shots[i]
                  /\ shots[i].isOutlier => shots'[i].isOutlier]_vars

C17_Witness ==
    /\ pc = "retagged"
    /\ Len(shots) = MaxShots
    /\ \E i \in 1..Len(shots) : shots[i].isOutlier /\ shots[i].carryYds = Some(3000)
    /\ \E i \in 1..Len(shots) : IsNull(shots[i].carryYds) /\ ~shots[i].isOutlier

-----------------------------------------------------------------------------
Replanning == pc = "plan" /\ pc' = "replanned"

(* C18: two invocations of buildCoachV2Plan with equal summary, ladder and *)
(* options return equal plans: every field of the returned plan is a       *)
(* function of the arguments only.                                         *)
C18_EqualArgumentsEqualPlans ==
    [][Replanning => coachV2Plan' = coachV2Plan]_vars

-----------------------------------------------------------------------------
Restoring == pc = "stored" /\ pc' = "restored"
PersistingAgain == pc = "restored" /\ pc' = "persisted"

(* C19: persisting and re-reading shots is a round trip: for every         *)
(* ShotRecord list S, toShotRecords(toStoredShots(S)) equals S in every    *)
(* field except raw, which is the empty mapping; and for every stored-shot *)
(* list T, toStoredShots(toShotRecords(T)) equals T.                       *)
C19_StorageRoundTrip ==
    [][/\ Restoring =>
              /\ Len(shots') = Len(shots)
              /\ \A i \in 1..Len(shots) :
                     /\ DOMAIN shots'[i] = DOMAIN shots[i]
                     /\ \A k \in (DOMAIN shots[i]) \ {"raw"} : shots'[i][k] = shots[i][k]
                     /\ shots'[i].raw = <<>>
       /\ PersistingAgain => storedShots' = storedShots]_vars

C19_Witness ==
    /\ pc = "persisted"
    /\ Len(csvRows) = MaxRows
    /\ Len(shots) >= 2
    /\ \E i \in 1..Len(shots) : shots[i].qualityFlags # <<>> /\ ~IsNull(shots[i].totalYds)
    /\ \E i \in 1..Len(shots) : ~IsNull(shots[i].clubName)
    /\ \A i \in 1..Len(shots) : shots[i].raw = <<>> /\ "raw" \notin DOMAIN storedShots[i]

-----------------------------------------------------------------------------
(* the entry of constraintScores for a key *)
ScoreEntry(plan, key) ==
    plan.constraintScores[CHOOSE i \in 1..Len(plan.constraintScores) :
                              plan.constraintScores[i].key = key]

(* the first club in summary order holding the largest non-null std dev of *)
(* the field, 0 when no club has one                                       *)
WidestClub(clubs, field) ==
    IF \A i \in 1..Len(clubs) : IsNull(clubs[i][field]) THEN 0
    ELSE CHOOSE i \in 1..Len(clubs) :
             /\ ~IsNull(clubs[i][field])
             /\ \A j \in 1..Len(clubs) :
                    ~IsNull(clubs[j][field]) => Val(clubs[j][field]) <= Val(clubs[i][field])
             /\ \A j \in 1..(i - 1) :
                    ~IsNull(clubs[j][field]) => Val(clubs[j][field]) < Val(clubs[i][field])

(* the entry is scored on the widest club: score is the std dev times      *)
(* factor10 / 10, rounded and clamped; the target is 85% of the current    *)
(* value rounded to a tenth                                                *)
ScoredOnWidestClub(entry, clubs, w, field, factor10) ==
    IF w = 0
    THEN /\ entry.score = 0
         /\ IsNull(entry.currentValue)
         /\ IsNull(entry.targetValue)
    ELSE /\ entry.focusClub = Some(clubs[w].displayName)
         /\ entry.currentValue = clubs[w][field]
         /\ entry.score = Within(RoundDiv(factor10 * Val(clubs[w][field]), 100), 0, 100)
         /\ ~IsNull(entry.targetValue)
         /\ Val(entry.targetValue) = RoundDiv(85 * Val(entry.currentValue), 100)

(* C20: for the direction_consistency (resp. distance_control) constraint  *)
(* of every plan: the focus club is the club with the maximum non-null     *)
(* lateral (resp. carry) std dev, the first such club in summary order on  *)
(* ties; score = clamp(round(value * 2.6), 0, 100) (resp. round(value *    *)
(* 3)); whenever currentValue is not null, targetValue is not null and     *)
(* equals 85% of currentValue rounded to one decimal; when no club has the *)
(* std dev, score is 0 and both values are null.                           *)
C20_ScoredOnWidestClub ==
    PlanReturned =>
        /\ ScoredOnWidestClub(ScoreEntry(Val(coachV2Plan), "direction_consistency"),
                              sessionSummary.clubs,
                              WidestClub(sessionSummary.clubs, "offlineStdDevYds"),
                              "offlineStdDevYds", 26)
        /\ ScoredOnWidestClub(ScoreEntry(Val(coachV2Plan), "distance_control"),
                              sessionSummary.clubs,
                              WidestClub(sessionSummary.clubs, "carryStdDevYds"),
                              "carryStdDevYds", 30)

-----------------------------------------------------------------------------
(* the rows of a ladder whose gap has one of the statuses *)
RowsWithStatus(rows, statuses) ==
    {i \in 1..Len(rows) : \E s \in statuses : rows[i].gapStatus = Some(s)}

(* 35 a row of overlap, 28 a row of cliff, 12 a row of compressed gap *)
AlertWeight(rows) ==
    35 * Cardinality(RowsWithStatus(rows, {"overlap"}))
    + 28 * Cardinality(RowsWithStatus(rows, {"cliff"}))
    + 12 * Cardinality(RowsWithStatus(rows, {"compressed"}))

GappingEntry == ScoreEntry(Val(coachV2Plan), "bag_gapping")

(* C21: for every ladder, the bag_gapping score equals min(100,            *)
(* 35*overlapCount + 28*cliffCount + 12*compressedCount) over the ladder's *)
(* rows; its focus club is the display name of the first ladder row whose  *)
(* status is overlap or cliff, and null when there is none; and every one  *)
(* of the four constraint scores of a plan is an integer in 0..100.        *)
C21_GappingScoreAndRange ==
    PlanReturned =>
        /\ GappingEntry.score
              = (IF AlertWeight(gappingLadder.rows) > 100 THEN 100
                 ELSE AlertWeight(gappingLadder.rows))
        /\ LET severe == RowsWithStatus(gappingLadder.rows, {"overlap", "cliff"})
           IN  IF severe = {} THEN IsNull(GappingEntry.focusClub)
               ELSE \E i \in severe :
                       /\ \A j \in severe : i <= j
                       /\ GappingEntry.focusClub = Some(gappingLadder.rows[i].displayClub)
        /\ Len(Val(coachV2Plan).constraintScores) = 4
        /\ \A i \in 1..4 : Val(coachV2Plan).constraintScores[i].score \in 0..100

(* a plan whose ladder weighs more than 100 *)
C21_Witness ==
    /\ PlanReturned
    /\ AlertWeight(gappingLadder.rows) > 100
    /\ GappingEntry.score = 100
    /\ ~IsNull(GappingEntry.focusClub)

-----------------------------------------------------------------------------
(* current minus baseline in tenths, none when either side is missing *)
ExpectedDelta(current, baseline) ==
    IF current = NULL \/ baseline = NULL THEN NULL
    ELSE Some(Val(current) - Val(baseline))

(* the direction the claim gives a delta in tenths: |delta| < 0.1 is flat  *)
ExpectedDirection(delta, higherIsBetter) ==
    CASE delta = NULL -> "insufficient"
      [] delta # NULL /\ Val(delta) > -1 /\ Val(delta) < 1 -> "flat"
      [] delta # NULL /\ Val(delta) >= 1 -> IF higherIsBetter THEN "improved" ELSE "worsened"
      [] delta # NULL /\ Val(delta) <= -1 -> IF higherIsBetter THEN "worsened" ELSE "improved"

(* the number of rows classified overlap, compressed or cliff, in tenths *)
AlertRows(ladder) ==
    Some(10 * Cardinality(RowsWithStatus(ladder.rows, {"overlap", "compressed", "cliff"})))

BaselineOf(field) ==
    IF IsNull(trendArgs.baselineSummary) THEN NULL
    ELSE Val(trendArgs.baselineSummary)[field]

BaselineAlertRows ==
    IF IsNull(trendArgs.baselineSummary) THEN NULL
    ELSE AlertRows(buildGappingLadder(Val(trendArgs.baselineSummary)))

MetricIs(metric, key, current, baseline, higherIsBetter) ==
    /\ metric.key = key
    /\ metric.current = current
    /\ metric.baseline = baseline
    /\ metric.delta = ExpectedDelta(current, baseline)
    /\ metric.direction = ExpectedDirection(ExpectedDelta(current, baseline), higherIsBetter)
    /\ (metric.direction = "insufficient") <=> (current = NULL \/ baseline = NULL)

(* C22: for each trend metric, delta = current - baseline rounded to one   *)
(* decimal; direction is insufficient iff either side is missing, flat iff *)
(* |delta| < 0.1, and otherwise improved exactly when delta > 0 for        *)
(* average carry and average ball speed and exactly when delta < 0 for the *)
(* gap-alert count, worsened in the remaining case; the gap-alert count is *)
(* the number of ladder rows classified overlap, compressed or cliff.      *)
C22_MetricDeltasAndDirections ==
    TrendBuilt =>
        /\ Len(trendDeltas.metrics) = 3
        /\ MetricIs(trendDeltas.metrics[1], "avg_carry_yds",
                    sessionSummary.avgCarryYds, BaselineOf("avgCarryYds"), TRUE)
        /\ MetricIs(trendDeltas.metrics[2], "avg_ball_speed_mph",
                    sessionSummary.avgBallSpeedMph, BaselineOf("avgBallSpeedMph"), TRUE)
        /\ MetricIs(trendDeltas.metrics[3], "gap_alerts",
                    AlertRows(gappingLadder), BaselineAlertRows, FALSE)

(* more carry, more ball speed and, with a compressed gap in the latest    *)
(* ladder, more gap alerts than the baseline                               *)
C22_Witness ==
    /\ TrendBuilt
    /\ trendDeltas.metrics[1].direction = "improved"
    /\ trendDeltas.metrics[2].direction = "improved"
    /\ trendDeltas.metrics[3].direction = "worsened"
    /\ RowsWithStatus(gappingLadder.rows, {"compressed"}) # {}

-----------------------------------------------------------------------------
(* the plans of the latest and of the baseline summary, as the call builds *)
(* them                                                                    *)
LatestPlan ==
    buildCoachV2Plan(sessionSummary, gappingLadder, trendArgs.latestSessionCount,
                     CHOOSE now \in ClockReads : TRUE)

BaselinePlan ==
    IF IsNull(trendArgs.baselineSummary) THEN NULL
    ELSE buildCoachV2Plan(Val(trendArgs.baselineSummary),
                          buildGappingLadder(Val(trendArgs.baselineSummary)),
                          trendArgs.baselineSessionCount,
                          CHOOSE now \in ClockReads : TRUE)

BothHaveClubs ==
    /\ Len(sessionSummary.clubs) >= 1
    /\ ~IsNull(trendArgs.baselineSummary)
    /\ Len(Val(trendArgs.baselineSummary).clubs) >= 1

KeysOf(plan) == {plan.constraintScores[i].key : i \in 1..Len(plan.constraintScores)}

PrimaryDeltaIs(delta, latest, baseline) ==
    /\ KeysOf(baseline) = {"direction_consistency", "distance_control",
                           "bag_gapping", "strike_quality"}
    /\ delta.currentScore = latest.primaryConstraint.score
    /\ delta.baselineScore = ScoreEntry(baseline, latest.primaryConstraint.key).score
    /\ delta.deltaScore = delta.currentScore - delta.baselineScore
    /\ delta.deltaScore < 0 => delta.direction = "improved"
    /\ delta.deltaScore > 0 => delta.direction = "worsened"
    /\ delta.deltaScore = 0 => delta.direction = "flat"

(* C23: primaryConstraintDelta is non-null exactly when both the latest    *)
(* summary and the baseline summary exist and each has at least one club;  *)
(* then currentScore is the latest plan's primary score, baselineScore is  *)
(* the score of the constraint with that same key in the baseline plan     *)
(* (which always holds all four keys), deltaScore = currentScore -         *)
(* baselineScore, and direction is improved when deltaScore < 0, worsened  *)
(* when deltaScore > 0 and flat when it is 0.                              *)
C23_PrimaryConstraintDelta ==
    TrendBuilt =>
        /\ ~IsNull(trendDeltas.primaryConstraintDelta) <=> BothHaveClubs
        /\ BothHaveClubs =>
              PrimaryDeltaIs(Val(trendDeltas.primaryConstraintDelta),
                             Val(LatestPlan), Val(BaselinePlan))

(* a worsened primary constraint that is not the baseline's own primary    *)
(* constraint, the two scores of the baseline differing                    *)
C23_Witness ==
    /\ TrendBuilt
    /\ BothHaveClubs
    /\ Val(trendDeltas.primaryConstraintDelta).direction = "worsened"
    /\ Val(trendDeltas.primaryConstraintDelta).deltaScore > 0
    /\ Val(LatestPlan).primaryConstraint.key # Val(BaselinePlan).primaryConstraint.key
    /\ Val(trendDeltas.primaryConstraintDelta).baselineScore
          # Val(BaselinePlan).primaryConstraint.score

-----------------------------------------------------------------------------
(* the insights of a ladder of one severity built from one message *)
InsightsOf(ladder, severity, template) ==
    {i \in 1..Len(ladder.insights) :
        /\ ladder.insights[i].severity = severity
        /\ ladder.insights[i].message[1] = template}

AlertInsights(ladder) ==
    {i \in 1..Len(ladder.insights) : ladder.insights[i].severity \in {"danger", "warning"}}

OneIff(indices, condition) == Cardinality(indices) = (IF condition THEN 1 ELSE 0)

(* C24: for every ladder, the insights list contains one danger insight    *)
(* for overlaps iff overlapCount > 0, one danger insight for cliffs iff    *)
(* cliffCount > 0, one warning insight for compressed gaps iff             *)
(* compressedCount > 0, and the healthy-profile info insight iff the       *)
(* ladder has more than one row and no row is overlap, cliff or            *)
(* compressed; the healthy insight never coexists with an alert insight.   *)
C24_LadderInsights ==
    LadderBuilt =>
        /\ OneIff(InsightsOf(gappingLadder, "danger", "overlapping"),
                  RowsWithStatus(gappingLadder.rows, {"overlap"}) # {})
        /\ OneIff(InsightsOf(gappingLadder, "danger", "cliffs"),
                  RowsWithStatus(gappingLadder.rows, {"cliff"}) # {})
        /\ OneIff(InsightsOf(gappingLadder, "warning", "compressed"),
                  RowsWithStatus(gappingLadder.rows, {"compressed"}) # {})
        /\ OneIff(InsightsOf(gappingLadder, "info", "healthy"),
                  /\ Len(gappingLadder.rows) > 1
                  /\ RowsWithStatus(gappingLadder.rows, {"overlap", "cliff", "compressed"}) = {})
        /\ Cardinality(AlertInsights(gappingLadder))
              = Cardinality(InsightsOf(gappingLadder, "danger", "overlapping"))
                + Cardinality(InsightsOf(gappingLadder, "danger", "cliffs"))
                + Cardinality(InsightsOf(gappingLadder, "warning", "compressed"))
        /\ InsightsOf(gappingLadder, "info", "healthy") # {} => AlertInsights(gappingLadder) = {}

(* a ladder with an overlap, a cliff and a compressed gap *)
C24_Witness ==
    /\ LadderBuilt
    /\ Len(gappingLadder.insights) = 3
    /\ InsightsOf(gappingLadder, "danger", "overlapping") # {}
    /\ InsightsOf(gappingLadder, "danger", "cliffs") # {}
    /\ InsightsOf(gappingLadder, "warning", "compressed") # {}

-----------------------------------------------------------------------------
(* the plan of the session, as buildRuleInsights builds it *)
SessionPlan ==
    buildCoachV2Plan(sessionSummary, gappingLadder, 1, CHOOSE now \in ClockReads : TRUE)

(* the positions of the drill logs tagged with the session's primary       *)
(* constraint key and holding a rated outcome                              *)
MatchingLogs ==
    IF Len(sessionSummary.clubs) = 0 THEN {}
    ELSE {i \in 1..Len(drillMemory) :
             /\ drillMemory[i].constraintKey = Some(Val(SessionPlan).primaryConstraint.key)
             /\ drillMemory[i].perceivedOutcome # NULL}

RECURSIVE OutcomeTotal(_, _, _)
OutcomeTotal(logs, positions, n) ==
    IF n = 0 THEN 0
    ELSE (IF n \in positions THEN Val(logs[n].perceivedOutcome) ELSE 0)
         + OutcomeTotal(logs, positions, n - 1)

(* the earliest of the positions holding the highest outcome *)
BestLog(logs, positions) ==
    CHOOSE i \in positions :
        \A j \in positions :
            \/ Val(logs[j].perceivedOutcome) < Val(logs[i].perceivedOutcome)
            \/ Val(logs[j].perceivedOutcome) = Val(logs[i].perceivedOutcome) /\ i <= j

DrillMemoryInsights ==
    {i \in 1..Len(ruleInsights) : ruleInsights[i].id = "drill-memory"}

DrillMemoryIs(insight, logs, positions) ==
    /\ (insight.severity = "info")
          <=> (10 * OutcomeTotal(logs, positions, Len(logs)) >= 38 * Cardinality(positions))
    /\ insight.severity \in {"info", "warning"}
    /\ insight.detail = <<Cardinality(positions), logs[BestLog(logs, positions)].drillName>>

(* C25: buildRuleInsights emits the 'drill-memory' insight if and only if  *)
(* a plan exists for the session (at least one club) and at least 2 of the *)
(* supplied drill logs have constraintKey equal to the session's           *)
(* primary-constraint key and a numeric perceivedOutcome; its severity is  *)
(* info when the mean outcome of those logs is >= 3.8 and warning          *)
(* otherwise, and the drill it names is a matching log with the highest    *)
(* outcome (the earliest such log in list order on ties).                  *)
C25_DrillMemory ==
    InsightsBuilt =>
        /\ (DrillMemoryInsights # {})
              <=> (Len(sessionSummary.clubs) >= 1 /\ Cardinality(MatchingLogs) >= 2)
        /\ \A i \in DrillMemoryInsights :
              DrillMemoryIs(ruleInsights[i], drillMemory, MatchingLogs)

(* two matching logs of equal outcome, the later one not named *)
C25_Witness ==
    /\ InsightsBuilt
    /\ Len(drillMemory) = 2
    /\ MatchingLogs = {1, 2}
    /\ drillMemory[1].perceivedOutcome = drillMemory[2].perceivedOutcome
    /\ \E i \in DrillMemoryInsights :
          /\ ruleInsights[i].severity = "warning"
          /\ ruleInsights[i].detail[2] = drillMemory[1].drillName

-----------------------------------------------------------------------------
(* row i of the ladder, followed by row i + 1 *)
RowBeforeNext(rows, i) ==
    /\ rows[i].gapToNextYds = Some(rows[i].medianCarryYds - rows[i + 1].medianCarryYds)
    /\ Val(rows[i].gapToNextYds) >= 0
    /\ rows[i].gapStatus # NULL
    /\ rows[i].gapStatus
          = Some(classifyGap(getClubFamily(rows[i].club), Val(rows[i].gapToNextYds)))
    /\ rows[i].overlapYds # NULL =>
          /\ Val(rows[i].overlapYds) >= 0
          /\ Val(rows[i].overlapYds)
                = (IF Val(rows[i + 1].p90CarryYds) > Val(rows[i].p10CarryYds)
                   THEN Val(rows[i + 1].p90CarryYds) - Val(rows[i].p10CarryYds)
                   ELSE 0)

LastRow(row) ==
    /\ row.gapToNextYds = NULL
    /\ row.gapStatus = NULL
    /\ row.overlapYds = NULL
    /\ row.warning = NULL

WarnedIffAlert(row) ==
    (row.warning # NULL)
        <=> (row.gapStatus \in {Some("overlap"), Some("compressed"), Some("cliff")})

(* C26: in every ladder, each row except the last has gapToNextYds = its   *)
(* median minus the next row's median (never negative) and a non-null      *)
(* gapStatus obtained by classifying that gap with the family of the row's *)
(* own (longer) club; the last row has gapToNextYds, gapStatus, overlapYds *)
(* and warning all null; overlapYds, when non-null, equals max(0, next.P90 *)
(* - current.P10) and is >= 0; and a row's warning is non-null if and only *)
(* if its gapStatus is overlap, compressed or cliff.                       *)
C26_LadderRows ==
    LadderBuilt =>
        /\ \A i \in 1..(Len(gappingLadder.rows) - 1) : RowBeforeNext(gappingLadder.rows, i)
        /\ gappingLadder.rows # <<>> => LastRow(gappingLadder.rows[Len(gappingLadder.rows)])
        /\ \A i \in 1..Len(gappingLadder.rows) : WarnedIffAlert(gappingLadder.rows[i])

(* a row whose gap the next club's family would classify otherwise, above  *)
(* a row whose band overlaps the next one's                                *)
C26_Witness ==
    /\ LadderBuilt
    /\ \E i \in 1..(Len(gappingLadder.rows) - 1) :
          /\ gappingLadder.rows[i].family # gappingLadder.rows[i + 1].family
          /\ Val(gappingLadder.rows[i].gapStatus)
                # classifyGap(gappingLadder.rows[i + 1].family,
                              Val(gappingLadder.rows[i].gapToNextYds))
    /\ \E i \in 1..(Len(gappingLadder.rows) - 1) :
          /\ gappingLadder.rows[i].overlapYds # NULL
          /\ Val(gappingLadder.rows[i].overlapYds) > 0
          /\ gappingLadder.rows[i].warning # NULL

-----------------------------------------------------------------------------
Emitted(id) == \E i \in 1..Len(ruleInsights) : ruleInsights[i].id = id

SeverityOf(id) ==
    ruleInsights[CHOOSE i \in 1..Len(ruleInsights) : ruleInsights[i].id = id].severity

(* the shots holding both a ball speed and a carry *)
PairedShots ==
    {i \in 1..Len(insightShots) :
        insightShots[i].ballSpeedMph # NULL /\ insightShots[i].carryYds # NULL}

(* the shots from position lo to position hi that hold a side value *)
SidedShots(lo, hi) ==
    {i \in lo..hi : i <= Len(insightShots) /\ insightShots[i].sideYds # NULL}

(* the clubs of the highest shot count, by position in the summary *)
MostPlayed ==
    {i \in 1..Len(sessionSummary.clubs) :
        \A j \in 1..Len(sessionSummary.clubs) :
            sessionSummary.clubs[j].shots <= sessionSummary.clubs[i].shots}

FirstMostPlayed == CHOOSE i \in MostPlayed : \A j \in MostPlayed : i <= j

SevereRows == RowsWithStatus(gappingLadder.rows, {"overlap", "cliff"})

(* C27: buildRuleInsights respects the minimum-sample gates: it never      *)
(* emits 'speed-carry-linked' when fewer than 20 shots have both ball      *)
(* speed and carry, never emits 'fatigue-dispersion' when the shot list    *)
(* has fewer than 70 shots or when the first 60 shots or the shots after   *)
(* the 60th have fewer than 2 side values, never emits                     *)
(* 'top-club-dispersion' unless the club with the highest shot count       *)
(* (first in summary order on ties) has at least 8 shots and a lateral std *)
(* dev > 15, and emits 'gap-alerts-present' iff at least one ladder row is *)
(* overlap or cliff, with severity danger iff there are at least 2 such    *)
(* rows.                                                                   *)
C27_MinimumSampleGates ==
    InsightsBuilt =>
        /\ Cardinality(PairedShots) < 20 => ~Emitted("speed-carry-linked")
        /\ Len(insightShots) < 70 => ~Emitted("fatigue-dispersion")
        /\ Cardinality(SidedShots(1, 60)) < 2 => ~Emitted("fatigue-dispersion")
        /\ Cardinality(SidedShots(61, Len(insightShots))) < 2 => ~Emitted("fatigue-dispersion")
        /\ Emitted("top-club-dispersion") =>
              /\ MostPlayed # {}
              /\ sessionSummary.clubs[FirstMostPlayed].shots >= 8
              /\ sessionSummary.clubs[FirstMostPlayed].offlineStdDevYds # NULL
              /\ Val(sessionSummary.clubs[FirstMostPlayed].offlineStdDevYds) > 150
        /\ Emitted("gap-alerts-present") <=> (SevereRows # {})
        /\ Emitted("gap-alerts-present") =>
              /\ SeverityOf("gap-alerts-present") \in {"danger", "warning"}
              /\ (SeverityOf("gap-alerts-present") = "danger") <=> (Cardinality(SevereRows) >= 2)

(* exactly 20 paired shots and exactly 70 shots, every gated rule emitted, *)
(* the most played club tied with a later one                              *)
C27_Witness ==
    /\ InsightsBuilt
    /\ Cardinality(PairedShots) = 20
    /\ Len(insightShots) = 70
    /\ Emitted("speed-carry-linked")
    /\ Emitted("fatigue-dispersion")
    /\ Emitted("top-club-dispersion")
    /\ Cardinality(MostPlayed) >= 2
    /\ Emitted("gap-alerts-present")
    /\ SeverityOf("gap-alerts-present") = "danger"

-----------------------------------------------------------------------------
(* the position of a constraint in the sorted scores of a plan *)
PositionOf(plan, key) ==
    CHOOSE i \in 1..Len(plan.constraintScores) : plan.constraintScores[i].key = key

(* the integer nearest to 0.55 * score, halves upward *)
NearestFiftyFiveHundredths(score) ==
    CHOOSE r \in 0..score : 100 * r - 50 <= 55 * score /\ 55 * score < 100 * r + 50

StrikeBelowDistance(plan, speed) ==
    /\ ScoreEntry(plan, "strike_quality").score
          = (IF speed = NULL THEN 0
             ELSE NearestFiftyFiveHundredths(ScoreEntry(plan, "distance_control").score))
    /\ ScoreEntry(plan, "strike_quality").score <= ScoreEntry(plan, "distance_control").score
    /\ PositionOf(plan, "distance_control") < PositionOf(plan, "strike_quality")

(* C28: in every plan returned by buildCoachV2Plan the primary constraint  *)
(* is never strike_quality: the strike score (0 without average ball       *)
(* speed, else round(0.55 * distance_control score)) is always <= the      *)
(* distance_control score, and on equal scores distance_control precedes   *)
(* strike_quality, so the strike-quality practice-step template is never   *)
(* selected.                                                               *)
C28_StrikeNeverPrimary ==
    PlanReturned =>
        /\ Val(coachV2Plan).primaryConstraint.key # "strike_quality"
        /\ StrikeBelowDistance(Val(coachV2Plan), sessionSummary.avgBallSpeedMph)
        /\ Val(coachV2Plan).practicePlan.steps[1] # "Centered contact block"

(* a strike score equal to a distance score of 1, distance control primary *)
C28_Witness ==
    /\ PlanReturned
    /\ ScoreEntry(Val(coachV2Plan), "strike_quality").score = 1
    /\ ScoreEntry(Val(coachV2Plan), "distance_control").score = 1
    /\ Val(coachV2Plan).primaryConstraint.key = "distance_control"
    /\ PositionOf(Val(coachV2Plan), "strike_quality") = 2

-----------------------------------------------------------------------------
(* C29: summarizeSession yields one club entry per distinct club type,     *)
(* where an empty club type counts as 'Unknown'; the clubs' shot counts    *)
(* sum to summary.shots; a club's median, P10 and P90 carry are non-null   *)
(* exactly when it has a measured carry, and then P10 <= median <= P90;    *)
(* its carry (lateral) std dev is non-null exactly when it has at least    *)
(* two measured carries (sides), and is then >= 0.                         *)

SummaryDone == pc = "summarised"

ClubTypesOf(shotList) == {shotList[i].clubType : i \in 1..Len(shotList)}

GroupNamesOf(shotList) ==
    {IF t = <<>> THEN StrUnknown ELSE t : t \in ClubTypesOf(shotList)}

EntriesNamed(name) ==
    {k \in 1..Len(sessionSummary.clubs) : sessionSummary.clubs[k].name = name}

MeasuredOf(name, field) ==
    {i \in 1..Len(shots) :
        /\ (IF shots[i].clubType = <<>> THEN StrUnknown ELSE shots[i].clubType) = name
        /\ ~IsNull(shots[i][field])}

RECURSIVE ClubShotsTotal(_)
ClubShotsTotal(clubs) ==
    IF clubs = <<>> THEN 0 ELSE Head(clubs).shots + ClubShotsTotal(Tail(clubs))

SpreadSound(spread, measured) ==
    /\ IsNull(spread) <=> Cardinality(measured) < 2
    /\ ~IsNull(spread) => Val(spread) >= 0

ClubStatsSound(club) ==
    /\ \A q \in {club.medianCarryYds, club.p10CarryYds, club.p90CarryYds} :
           IsNull(q) <=> MeasuredOf(club.name, "carryYds") = {}
    /\ MeasuredOf(club.name, "carryYds") # {}
           => /\ Val(club.p10CarryYds) <= Val(club.medianCarryYds)
              /\ Val(club.medianCarryYds) <= Val(club.p90CarryYds)
    /\ SpreadSound(club.carryStdDevYds, MeasuredOf(club.name, "carryYds"))
    /\ SpreadSound(club.offlineStdDevYds, MeasuredOf(club.name, "sideYds"))

CountsAndStatsSound ==
    /\ ClubShotsTotal(sessionSummary.clubs) = sessionSummary.shots
    /\ sessionSummary.shots = Len(shots)
    /\ \A k \in 1..Len(sessionSummary.clubs) : ClubStatsSound(sessionSummary.clubs[k])

C29_SummaryPerGroupedClub ==
    SummaryDone =>
        /\ Len(sessionSummary.clubs) = Cardinality(GroupNamesOf(shots))
        /\ \A name \in GroupNamesOf(shots) : Cardinality(EntriesNamed(name)) = 1
        /\ CountsAndStatsSound

(* an empty and an 'Unknown' club type share one entry with a spread, one  *)
(* club has a single measured carry and another none                       *)
C29_Witness ==
    /\ SummaryDone
    /\ {<<>>, StrUnknown} \subseteq ClubTypesOf(shots)
    /\ Len(sessionSummary.clubs) < Cardinality(ClubTypesOf(shots))
    /\ \E k \in 1..Len(sessionSummary.clubs) :
           /\ sessionSummary.clubs[k].name = StrUnknown
           /\ sessionSummary.clubs[k].shots = 2
           /\ ~IsNull(sessionSummary.clubs[k].carryStdDevYds)
           /\ Val(sessionSummary.clubs[k].carryStdDevYds) > 0
    /\ \E k \in 1..Len(sessionSummary.clubs) :
           /\ Cardinality(MeasuredOf(sessionSummary.clubs[k].name, "carryYds")) = 1
           /\ IsNull(sessionSummary.clubs[k].carryStdDevYds)
           /\ ~IsNull(sessionSummary.clubs[k].medianCarryYds)
    /\ \E k \in 1..Len(sessionSummary.clubs) :
           /\ MeasuredOf(sessionSummary.clubs[k].name, "carryYds") = {}
           /\ IsNull(sessionSummary.clubs[k].medianCarryYds)

(* the statement with one entry for every distinct clubType value as such *)
C29_OneEntryPerClubType ==
    SummaryDone =>
        /\ Len(sessionSummary.clubs) = Cardinality(ClubTypesOf(shots))
        /\ \A t \in ClubTypesOf(shots) : Cardinality(EntriesNamed(t)) = 1
        /\ CountsAndStatsSound

-----------------------------------------------------------------------------
(* C30: in the registration route the account-creation operation runs at   *)
(* most 5 times; a run that succeeds ends the route at once; the operation *)
(* is run again only after a 'database is locked' error; any other error   *)
(* is propagated without a further run; after 5 locked errors in a row the *)
(* route answers 503 'Database is busy'; and the route always ends with    *)
(* one of the statuses 201, 400, 409, 503, 500.                            *)

Responded == pc = "responded"

ThrewLocked(run) ==
    /\ run.outcome = "threw"
    /\ Val(run.error).known
    /\ Val(run.error).code = "P2010"
    /\ ~IsNull(Val(run.error).message)
    /\ includes(toLowerCase(Val(Val(run.error).message)), StrDatabaseIsLocked)

LatestRun == operationRuns[Len(operationRuns)]

FiveLockedRuns ==
    /\ Len(operationRuns) = 5
    /\ \A i \in 1..5 : ThrewLocked(operationRuns[i])

RetrySound ==
    /\ Len(operationRuns) <= 5
    /\ \A i \in 1..(Len(operationRuns) - 1) : ThrewLocked(operationRuns[i])
    /\ (operationRuns # <<>> /\ LatestRun.outcome \in {"exists", "created"})
           => /\ Responded
              /\ Val(response).status = (IF LatestRun.outcome = "created" THEN 201 ELSE 409)
    /\ (operationRuns # <<>> /\ LatestRun.outcome = "threw" /\ ~ThrewLocked(LatestRun))
           => /\ pc \in {"caught", "failed", "responded"}
              /\ pc # "caught" => thrown = LatestRun.error
              /\ Responded => Val(response).status \in {503, 409, 500}
    /\ (FiveLockedRuns /\ pc \notin {"caught", "sleep"})
           => /\ pc \in {"failed", "responded"}
              /\ Responded =>
                     response = Some(MkResponse(503, "Database is busy. Please retry in a moment."))
    /\ Responded => Val(response).status \in {201, 400, 409, 503, 500}
    /\ ~Responded => response = NULL

C30_RetryAndTermination == [](pc # "post" => RetrySound) /\ <>Responded

(* five locked errors in a row, then the 503 'Database is busy' answer *)
C30_Witness ==
    /\ Responded
    /\ FiveLockedRuns
    /\ Val(response).status = 503

=============================================================================
